---- MODULE Spec2Model ----
(***************************************************************************)
(* Offline durability and synchronisation subsystem of the Aurica client:  *)
(* the pending-update queue (services/offlineStorage.ts), the queue        *)
(* manager that drains it (services/offlineQueueManager.ts) and the submit *)
(* operation of the API service (services/api.ts).                         *)
(*                                                                         *)
(* JavaScript runs the code on one thread; every `await` is a suspension   *)
(* point.  One action of the model is the code that runs between two       *)
(* suspension points.                                                      *)
(***************************************************************************)
EXTENDS Integers, Sequences, FiniteSets, TLC

\* ---------------------------------------------------------------- bounds
\* rows ever inserted into pending_updates (AUTOINCREMENT ids 1..MaxId)
MaxId == 3
\* failures of the local store injected in one behaviour
MaxFaults == 3
\* processQueue() invocations that can be past the guard at once
MaxDrains == 2
\* subscribed listeners
MaxListeners == 2
\* earliest and latest reading of the wall clock, in milliseconds, when
\* the store is called directly
MinClock == 9
MaxClock == 10
\* rows ever inserted, and failures injected, when the store is called directly
MaxRows == 2
MaxStoreFaults == 1
\* OfflineStorageService calls that can be in flight at once
MaxCalls == 2
\* background fetches that can be in flight at once
MaxRefresh == 2
\* read-through loads whose `fresh` can be pending at once
MaxLoads == 1
\* captures a user can attach
MaxPhotos == 1
\* stakeholders with variables, and entries of a list the server returns
MaxOwners == 1
MaxList == 2
\* callers of initialize() that can be in flight at once, and database
\* handles opened in one behaviour
\* rows an earlier session left queued, and the ids given in all, when a
\* drain has more than one batch
MaxLeft == 6
MaxLeftId == 12
\* stakeholders whose variables are cached when owner scopes are compared
MaxScopes == 2
MaxInits == 2
MaxOpens == 3
\* setInterval timers that can be live at once
MaxIntervals == 2

\* ------------------------------------------------------- program constants
\* a batch that takes a whole queue of MaxLeft rows
batchSizeAll == MaxLeft

\* processQueue line 103: const batchSize = 5
batchSize == 5
\* the CREATE TABLE and CREATE INDEX statements of initialize()
schemaStatements == 5

NoError == ""
ErrLocalSave == "Failed to save update locally. Please try again."
ErrUnknown == "Unknown error"
\* message of the exception a failing store operation throws
ErrStore == "storage error"

\* measurements a user can submit (stakeholder_variable_id, value, date,
\* description; "" is a description left out)
Measures ==
  { [stakeholder_variable_id |-> 42, value |-> "7", measurement_date |-> "2024-03-01",
     file_description |-> ""] }

\* the callbacks that components subscribe, each a closure of its own
Listeners == 1..MaxListeners
Slots == 1..MaxDrains
CallSlots == 1..MaxCalls
RefreshSlots == 1..MaxRefresh
\* a load writes the cache in the slot of its own number
LoadSlots == {l \in RefreshSlots : l <= MaxLoads}

\* a file URI: the segments of its directory, then photo_<n>.<ext> or <tag>_<n>.<ext>
NoPhoto == [dir |-> <<>>, tag |-> "", n |-> 0, ext |-> ""]

\* `${FileSystem.documentDirectory}offline_photos/`
offlinePhotosDir == <<"documents", "offline_photos">>

\* where expo-image-picker leaves a capture (PhotoPicker: asset.uri)
pickerDir == <<"cache", "ImagePicker">>

\* the photos a user can attach: uri and the extension of photo.name
Photos ==
  { [dir |-> pickerDir, tag |-> "capture", n |-> k, ext |-> "jpg"] : k \in 1..MaxPhotos }

\* MeasureData with its optional photo
StoreMeasures ==
  { [stakeholder_variable_id |-> m.stakeholder_variable_id, value |-> m.value,
     measurement_date |-> m.measurement_date,
     file_description |-> m.file_description, photo |-> p] :
       m \in Measures, p \in Photos \cup {NoPhoto} }

VARIABLES
  queue,        \* rows of table pending_updates
  nextId,       \* next AUTOINCREMENT id
  clock,        \* wall clock read by new Date()
  isProcessing, \* OfflineQueueManager.isProcessing
  timer,        \* OfflineQueueManager.processingInterval # null
  intervals,    \* setInterval timers that have not been cleared
  online,       \* the device's connectivity (NetInfo)
  listeners,    \* OfflineQueueManager.listeners
  drain,        \* processQueue() invocations past the guard, by slot
  remoteCalls,  \* submit-measurement requests the remote service received
  faults,       \* store failures so far
  hist,         \* per row id: dispatch failures seen so far (history)
  lastOp,       \* the operation that made the last step, and what it returned
  files,        \* files that exist in the device's file system
  calls,        \* OfflineStorageService calls in flight, by slot
  stakeholders, \* rows of table stakeholders
  stakeholder_variables, \* rows of table stakeholder_variables
  refresh,      \* cache writes of background fetches in flight, by slot
  loads,        \* read-through loads whose `fresh` is pending, by slot
  db,           \* OfflineStorageService.db: the handle held, 0 for null
  isInitialized, \* OfflineStorageService.isInitialized
  inits,        \* callers of initialize() in flight, by slot
  opened,       \* handles openDatabaseAsync has returned so far (history)
  used          \* handles on which a statement of an operation ran (history)

vars == <<queue, nextId, clock, isProcessing, timer, intervals, online, listeners, drain,
          remoteCalls, faults, hist, lastOp, files, calls, stakeholders,
          stakeholder_variables, refresh, loads, db, isInitialized, inits,
          opened, used>>

\* the handle of the store and who is opening it
handleVars == <<db, isInitialized, inits, opened, used>>

\* what the queue manager's steps leave alone
ext == <<files, calls, stakeholders, stakeholder_variables, refresh, loads, handleVars>>

\* ------------------------------------------------------------ pure helpers
ZeroResult ==
  [successCount |-> 0, failureCount |-> 0, totalProcessed |-> 0, errors |-> <<>>]

\* a caller of initialize(): where it is, the statement it is at, and the
\* operation that awaits it
IdleInit == [pc |-> "idle", k |-> 0, op |-> ""]

IdleDrain ==
  [pc |-> "idle", snap |-> <<>>, lo |-> 0, ipc |-> <<>>, imsg |-> <<>>,
   result |-> ZeroResult, count0 |-> 0, dirty |-> FALSE,
   cleared |-> FALSE, submitted |-> FALSE]

NoHist == [fails |-> 0, lost |-> FALSE, gone |-> FALSE, msg |-> NoError]

\* an OfflineStorageService call: where it is and its local variables
NoMeasure ==
  [stakeholder_variable_id |-> 0, value |-> "", measurement_date |-> "",
   file_description |-> "", photo |-> NoPhoto]

IdleCall ==
  [pc |-> "idle", op |-> "", id |-> 0, now |-> <<>>, m |-> NoMeasure,
   photoUri |-> NoPhoto, permanentUri |-> NoPhoto, copied |-> FALSE,
   copyFailed |-> FALSE, unlinkFailed |-> FALSE, found |-> FALSE]

\* a background fetch: where it is, its local variables, and the list of a
\* fetch for the same scope that was in flight with it (history)
IdleRefresh ==
  [pc |-> "idle", kind |-> "", owner |-> 0, list |-> <<>>, k |-> 0,
   stale |-> FALSE, overlap |-> "none", peer |-> <<>>]

\* a read-through load: where its background fetch is, the `cached` it
\* handed back, and what `fresh` settled with
IdleLoad ==
  [pc |-> "idle", kind |-> "", owner |-> 0, cached |-> {}, via |-> "",
   asked |-> FALSE, alone |-> TRUE, value |-> {}, from |-> ""]

\* what a report generation read and the variable list it handed to the
\* renderer
IdleReport == [stakeholderId |-> 0, cached |-> <<>>, pending |-> <<>>, variables |-> <<>>]

Op(name) ==
  [op |-> name, ok |-> TRUE, err |-> NoError, threw |-> FALSE,
   pq |-> "none", res |-> ZeroResult, inv |-> <<>>, thr |-> {},
   call |-> IdleCall, refresh |-> IdleRefresh, load |-> IdleLoad,
   report |-> IdleReport]

\* a step that returns nothing to a caller
Step == Op("step")

Content(r) ==
  [stakeholder_variable_id |-> r.stakeholder_variable_id,
   value |-> r.value, measurement_date |-> r.measurement_date,
   file_description |-> r.file_description]

Min(a, b) == IF a < b THEN a ELSE b

\* the timestamp written without zero padding
toStringUnpadded(t) ==
  IF t < 10 THEN <<t>> ELSE <<(t \div 10) % 10, t % 10>>

\* new Date().toISOString(): fixed-width, zero-padded decimal fields; the text
\* is kept as its two lowest digits
toISOString(t) == <<(t \div 10) % 10, t % 10>>

\* comparison of two TEXT values (SQLite BINARY collation): character by
\* character, a proper prefix first
RECURSIVE TextLess(_, _)
TextLess(a, b) ==
  IF b = <<>> THEN FALSE
  ELSE IF a = <<>> THEN TRUE
  ELSE Head(a) < Head(b) \/ (Head(a) = Head(b) /\ TextLess(Tail(a), Tail(b)))

\* ORDER BY created_at ASC (index idx_pending_updates_created_at: ties by rowid)
Before(r, q) ==
  TextLess(r.created_at, q.created_at) \/ (r.created_at = q.created_at /\ r.id <= q.id)

RECURSIVE SortRows(_)
SortRows(S) ==
  IF S = {} THEN <<>>
  ELSE LET m == CHOOSE r \in S : \A q \in S : Before(r, q)
       IN <<m>> \o SortRows(S \ {m})

\* the oldest row only
getPendingUpdatesFirst(q) == SubSeq(SortRows(q), 1, Min(1, Cardinality(q)))

\* OfflineStorageService.getPendingUpdates: SELECT * ... ORDER BY created_at ASC
getPendingUpdates(q) == SortRows(q)

\* OfflineStorageService.getPendingUpdatesCount: SELECT COUNT(*)
getPendingUpdatesCount(q) == Cardinality(q)

\* OfflineStorageService.queueUpdate lines 147-163: the row the INSERT creates
insertRow(m, photoUri, id, now) ==
  [id |-> id,
   stakeholder_variable_id |-> m.stakeholder_variable_id,
   value |-> m.value,
   measurement_date |-> m.measurement_date,
   file_description |-> m.file_description,
   photo_uri |-> photoUri,
   created_at |-> now,
   retry_count |-> 0,
   last_error |-> NoError]

\* OfflineStorageService.queueUpdate of a measurement without a photo, as
\* the form submits it: the only await is the INSERT
queueUpdate(m, id, now) == insertRow(m, NoPhoto, id, toISOString(now))

\* a DELETE that empties the table when the id is not there
removeUpdateOrAll(q, id) ==
  IF \E r \in q : r.id = id THEN {r \in q : r.id # id} ELSE {}

\* OfflineStorageService.removeUpdate: DELETE FROM pending_updates WHERE id = ?
removeUpdate(q, id) == {r \in q : r.id # id}

\* the UPDATE without its WHERE clause
updateRetryCountAll(q, id, retryCount, lastError) ==
  {[r EXCEPT !.retry_count = retryCount, !.last_error = lastError] : r \in q}

\* OfflineStorageService.updateRetryCount:
\* UPDATE pending_updates SET retry_count = ?, last_error = ? WHERE id = ?
updateRetryCount(q, id, retryCount, lastError) ==
  {IF r.id = id
     THEN [r EXCEPT !.retry_count = retryCount, !.last_error = lastError]
     ELSE r : r \in q}

\* OfflineStorageService.clearAllUpdates: DELETE FROM pending_updates
clearAllUpdates(q) == {}

\* processUpdate: the MeasureData rebuilt from a queued row
measureData(update) == Content(update)

\* ApiService.updateMeasureDataOnline: the request sent to the remote service
\* and the result returned for the remote's answer.  No code path calls it.
updateMeasureDataOnline(m, isOnline, answer) ==
  IF ~isOnline
    THEN [sent |-> {}, success |-> FALSE,
          error |-> "No network connection. Please check your internet and try again."]
    ELSE [sent |-> {m}, success |-> (answer = "ok"),
          error |-> IF answer = "ok" THEN NoError
                    ELSE IF answer = "timeout"
                      THEN "Request timeout. Will retry in background."
                      ELSE "Failed to update measure data"]

\* --------------------------------------------------------- queue manager
InFlight(drn) == {d \in Slots : drn[d].pc # "idle"}

FreeSlot(drn) == CHOOSE d \in Slots : drn[d].pc = "idle" /\
                   \A e \in Slots : e < d => drn[e].pc # "idle"

\* the guard left out: every call starts a drain
GuardNever(isP) == FALSE

\* processQueue lines 76-79: the single-flight guard
GuardBusy(isP) == isP

\* a call can be modelled when it is skipped or a slot is free for it
CanCall(isP, drn) == GuardBusy(isP) \/ InFlight(drn) # Slots

\* processQueue up to its first await: skip, or take the guard and start loading
processQueueCall(isP, drn, cnt) ==
  IF GuardBusy(isP)
    THEN [isProcessing |-> isP, drain |-> drn, pq |-> "skipped",
          res |-> [successCount |-> 0, failureCount |-> 0,
                   totalProcessed |-> 0, errors |-> <<>>]]
    ELSE [isProcessing |-> TRUE,
          drain |-> [drn EXCEPT ![FreeSlot(drn)] =
                       [IdleDrain EXCEPT !.pc = "load", !.count0 = cnt]],
          pq |-> "started", res |-> ZeroResult]

\* listeners invoked without the try/catch: the first throwing listener
\* ends the delivery and its error escapes
notifyListenersNoCatch(ls, throwing, leaving) ==
  LET bad == {k \in 1..Len(ls) : ls[k] \in throwing}
  IN IF bad = {} THEN [invoked |-> ls, threw |-> FALSE, listeners |-> ls]
     ELSE [invoked |-> SubSeq(ls, 1, CHOOSE k \in bad : \A j \in bad : k <= j),
           threw |-> TRUE, listeners |-> ls]

\* the closure addListener returns, lines 32-37: indexOf, splice(index, 1)
splice(ls, l) ==
  IF \A k \in 1..Len(ls) : ls[k] # l THEN ls
  ELSE LET i == CHOOSE k \in 1..Len(ls) : ls[k] = l /\ \A j \in 1..(k - 1) : ls[j] # l
       IN SubSeq(ls, 1, i - 1) \o SubSeq(ls, i + 1, Len(ls))

\* this.listeners.forEach(...), line 42, over the array itself: the length is
\* read once, an index is visited if the array still has it, and a listener
\* of `leaving` calls its unsubscribe closure while it runs
RECURSIVE forEach(_, _, _, _, _)
forEach(ls, k, len, leaving, invoked) ==
  IF k > len THEN [invoked |-> invoked, listeners |-> ls]
  ELSE IF k > Len(ls) THEN forEach(ls, k + 1, len, leaving, invoked)
  ELSE forEach(IF ls[k] \in leaving THEN splice(ls, ls[k]) ELSE ls,
               k + 1, len, leaving, Append(invoked, ls[k]))

\* the listeners visited from the last to the first
deliveryReversed(ls, leaving) ==
  LET n == forEach(ls, 1, Len(ls), leaving, <<>>)
  IN [invoked |-> [i \in 1..Len(n.invoked) |-> n.invoked[Len(n.invoked) + 1 - i]],
      listeners |-> n.listeners]

\* the listeners visited from the first, lines 42-48
delivery(ls, leaving) == forEach(ls, 1, Len(ls), leaving, <<>>)

\* notifyListeners: every listener is invoked inside its own try/catch
notifyListeners(ls, throwing, leaving) ==
  LET n == delivery(ls, leaving)
  IN [invoked |-> n.invoked, threw |-> FALSE, listeners |-> n.listeners]

\* the guard released on the normal path only, not in a finally
guardAfterFinallyLeak(threwInTry) == threwInTry

\* processQueue lines 118-119: finally { this.isProcessing = false }
guardAfterFinally(threwInTry) == FALSE

\* processQueue line 116: catch (error) swallows what the try block throws
processQueueCatch(threwInTry) == FALSE

\* the batch awaited with Promise.all: it rejects when a member does
processBatchAll(rejected) == rejected

\* processBatch: Promise.allSettled never rejects
processBatch(rejected) == FALSE

MarkDirty(drn) ==
  [d \in Slots |-> IF drn[d].pc = "idle" THEN drn[d]
                   ELSE [drn[d] EXCEPT !.dirty = TRUE]]

\* the queue was cleared while the drain had a snapshot (history)
MarkCleared(drn) ==
  [d \in Slots |-> IF drn[d].pc \in {"batch", "pause"}
                     THEN [drn[d] EXCEPT !.cleared = TRUE, !.submitted = FALSE]
                     ELSE drn[d]]

\* the user submitted a measurement while the drain was in flight (history)
MarkSubmitted(drn) ==
  [d \in Slots |-> IF drn[d].pc = "idle" THEN drn[d]
                   ELSE [drn[d] EXCEPT !.submitted = TRUE]]

\* success reported whatever the local write did
updateMeasureDataOptimistic(storeOk) ==
  [success |-> TRUE, error |-> NoError, queued |-> TRUE, threw |-> FALSE]

\* the local failure rethrown as OfflineQueueManager.queueUpdate does
updateMeasureDataRethrow(storeOk) ==
  IF storeOk
    THEN [success |-> TRUE, error |-> NoError, queued |-> TRUE, threw |-> FALSE]
    ELSE [success |-> FALSE, error |-> ErrStore, queued |-> FALSE, threw |-> TRUE]

\* ApiService.updateMeasureData lines 523-533: what the submit returns
updateMeasureDataReturn(storeOk) ==
  IF storeOk
    THEN [success |-> TRUE, error |-> NoError, queued |-> TRUE, threw |-> FALSE]
    ELSE [success |-> FALSE, error |-> ErrLocalSave, queued |-> FALSE, threw |-> FALSE]

\* ApiService.updateMeasureData(m, isOnline): queue locally, then fire a
\* drain without awaiting it.  storeOk: the local INSERT succeeds; drn: the
\* drains as the caller leaves them.  new Date() of an enqueue is later than
\* the one of the enqueue before it.
updateMeasureData(m, isOnline, storeOk, drn) ==
  IF storeOk
    THEN LET now == clock + 1
             q2 == queue \cup {queueUpdate(m, nextId, now)}
             call == IF isOnline
                       THEN processQueueCall(isProcessing, drn, getPendingUpdatesCount(q2))
                       ELSE [isProcessing |-> isProcessing, drain |-> drn, pq |-> "none"]
         IN [queue |-> q2, nextId |-> nextId + 1, clock |-> now,
             isProcessing |-> call.isProcessing, drain |-> call.drain,
             pq |-> call.pq, ret |-> updateMeasureDataReturn(TRUE)]
    ELSE [queue |-> queue, nextId |-> nextId, clock |-> clock,
          isProcessing |-> isProcessing, drain |-> drn,
          pq |-> "none", ret |-> updateMeasureDataReturn(FALSE)]

\* the outcomes the local store can have for one operation
StoreOutcomes(canInsert) ==
  (IF canInsert THEN {TRUE} ELSE {}) \cup (IF faults < MaxFaults THEN {FALSE} ELSE {})

Fault(ok) == IF ok THEN faults ELSE faults + 1

\* ------------------------------------------------------------------ Init
\* the state after construction, the wall clock reading t and the tables
\* of the caches holding st and sv
InitFull(t, st, sv, q, ids) ==
  /\ queue = q
  /\ nextId = Cardinality(q) + 1
  /\ clock = t
  /\ isProcessing = FALSE
  /\ timer = FALSE
  /\ intervals = 0
  /\ online = TRUE
  /\ listeners = <<>>
  /\ drain = [d \in Slots |-> IdleDrain]
  /\ remoteCalls = {}
  /\ faults = 0
  /\ hist = [i \in 1..ids |-> NoHist]
  /\ lastOp = Op("init")
  /\ files = Photos
  /\ calls = [c \in CallSlots |-> IdleCall]
  /\ stakeholders = st
  /\ stakeholder_variables = sv
  /\ refresh = [f \in RefreshSlots |-> IdleRefresh]
  /\ loads = [l \in RefreshSlots |-> IdleLoad]
  /\ db = 0
  /\ isInitialized = FALSE
  /\ inits = [c \in 1..MaxInits |-> IdleInit]
  /\ opened = 0
  /\ used = {}

\* the queue empty, the ids 1..MaxId to be given
InitWith(t, st, sv) == InitFull(t, st, sv, {}, MaxId)

\* the first start: the tables are created empty
InitAt(t) == InitWith(t, {}, {})

Init == InitAt(0)

\* the application started later in the day
InitLater == InitAt(MinClock)

\* --------------------------------------------------------------- actions
\* VariableForm.handleSubmit: apiService.updateMeasureData(measureData)
handleSubmit ==
  \E m \in Measures, ok \in StoreOutcomes(nextId \in DOMAIN hist) :
    /\ CanCall(isProcessing, drain)
    /\ LET r == updateMeasureData(m, TRUE, ok,
                                  IF ok THEN MarkSubmitted(MarkDirty(drain)) ELSE drain)
       IN /\ queue' = r.queue
          /\ nextId' = r.nextId
          /\ clock' = r.clock
          /\ isProcessing' = r.isProcessing
          /\ drain' = r.drain
          /\ lastOp' = [Op("updateMeasureData") EXCEPT
                          !.ok = r.ret.success, !.err = r.ret.error,
                          !.threw = r.ret.threw, !.pq = r.pq]
    /\ faults' = Fault(ok)
    /\ UNCHANGED <<ext, timer, intervals, online, listeners, remoteCalls, hist>>

\* a bare processQueue() call of a trigger
Trigger(name) ==
  /\ CanCall(isProcessing, drain)
  /\ LET call == processQueueCall(isProcessing, drain, getPendingUpdatesCount(queue))
     IN /\ isProcessing' = call.isProcessing
        /\ drain' = call.drain
        /\ lastOp' = [Op(name) EXCEPT !.pq = call.pq, !.res = call.res]
  /\ UNCHANGED <<ext, queue, nextId, clock, online, listeners, remoteCalls, faults, hist>>

\* PendingUpdatesModal.handleProcessQueue: "sync now"
handleProcessQueue == Trigger("handleProcessQueue") /\ UNCHANGED <<timer, intervals>>

\* setInterval callback of startAutoProcessing: a timer that was not cleared
\* fires
timerTick == intervals > 0 /\ Trigger("timerTick") /\ UNCHANGED <<timer, intervals>>

\* a start that never finds the trigger started
alreadyStartedNever(processingInterval) == FALSE

\* startAutoProcessing lines 53-55: if (this.processingInterval) return
alreadyStarted(processingInterval) == processingInterval

\* OfflineQueueManager.startAutoProcessing lines 52-64
startAutoProcessing ==
  IF alreadyStarted(timer)
    THEN /\ lastOp' = Op("startAutoProcessing")
         /\ UNCHANGED <<ext, queue, nextId, clock, isProcessing, timer, intervals, online,
                        listeners, drain, remoteCalls, faults, hist>>
    ELSE /\ intervals < MaxIntervals
         /\ Trigger("startAutoProcessing")
         /\ timer' = TRUE
         /\ intervals' = intervals + 1

\* OfflineQueueManager.stopAutoProcessing lines 67-72
stopAutoProcessing ==
  /\ timer' = FALSE
  /\ intervals' = IF timer THEN intervals - 1 ELSE intervals
  /\ lastOp' = Op("stopAutoProcessing")
  /\ UNCHANGED <<ext, queue, nextId, clock, isProcessing, online, listeners, drain,
                 remoteCalls, faults, hist>>

\* OfflineQueueManager.addListener
addListener ==
  \E l \in Listeners :
    /\ \A k \in 1..Len(listeners) : listeners[k] # l
    /\ listeners' = Append(listeners, l)
    /\ lastOp' = Step
    /\ UNCHANGED <<ext, queue, nextId, clock, isProcessing, timer, intervals, online, drain,
                   remoteCalls, faults, hist>>

\* the function addListener returns: splice out the first occurrence
removeListener ==
  \E i \in 1..Len(listeners) :
    /\ \A j \in 1..(i - 1) : listeners[j] # listeners[i]
    /\ listeners' = SubSeq(listeners, 1, i - 1) \o SubSeq(listeners, i + 1, Len(listeners))
    /\ lastOp' = Step
    /\ UNCHANGED <<ext, queue, nextId, clock, isProcessing, timer, intervals, online, drain,
                   remoteCalls, faults, hist>>

\* the device gains or loses connectivity
netChange ==
  /\ online' = ~online
  /\ lastOp' = Step
  /\ UNCHANGED <<ext, queue, nextId, clock, isProcessing, timer, intervals, listeners, drain,
                 remoteCalls, faults, hist>>

\* PendingUpdatesModal.handleClearAll -> clearAllPending -> clearAllUpdates
clearAllPending ==
  \E ok \in StoreOutcomes(TRUE) :
    /\ queue' = IF ok THEN clearAllUpdates(queue) ELSE queue
    /\ drain' = IF ok THEN MarkCleared(MarkDirty(drain)) ELSE drain
    /\ faults' = Fault(ok)
    /\ hist' = IF ok THEN [i \in DOMAIN hist |-> [hist[i] EXCEPT !.gone = (i < nextId)]]
                     ELSE hist
    /\ lastOp' = [Op("clearAllPending") EXCEPT
                    !.ok = ok, !.threw = ~ok, !.err = IF ok THEN NoError ELSE ErrStore]
    /\ UNCHANGED <<ext, nextId, clock, isProcessing, timer, intervals, online, listeners, remoteCalls>>

\* ------------------------------------------------------- the drain itself
Item(d, i) == drain[d].snap[i]

BatchHi(dr) == Min(dr.lo + batchSize - 1, Len(dr.snap))

Throwing == SUBSET {listeners[k] : k \in 1..Len(listeners)}

\* processQueue lines 118-123: finally { isProcessing = false; notify } return
Finish(d, res, threwInTry, throwing, leaving) ==
  LET n == notifyListeners(listeners, throwing, leaving)
  IN /\ isProcessing' = guardAfterFinally(threwInTry)
     /\ listeners' = n.listeners
     /\ drain' = [drain EXCEPT ![d] = IdleDrain]
     /\ lastOp' = [Op("processQueue") EXCEPT
                     !.pq = "drained", !.res = res, !.inv = n.invoked,
                     !.ok = ~threwInTry, !.thr = throwing,
                     !.threw = processQueueCatch(threwInTry) \/ n.threw]

\* processQueue lines 92-98: await getPendingUpdates(), empty-queue return
processQueueLoad(d) ==
  /\ drain[d].pc = "load"
  /\ \E ok \in StoreOutcomes(TRUE), throwing \in Throwing, leaving \in Throwing :
       LET snap == getPendingUpdates(queue)
           res == [drain[d].result EXCEPT !.totalProcessed = Len(snap)]
       IN /\ faults' = Fault(ok)
          /\ IF ~ok
               THEN Finish(d, drain[d].result, TRUE, throwing, leaving)
               ELSE IF Len(snap) = 0
                 THEN Finish(d, res, FALSE, throwing, leaving)
                 ELSE /\ throwing = {}
                      /\ leaving = {}
                      /\ listeners' = listeners
                      /\ drain' = [drain EXCEPT ![d] =
                           [@ EXCEPT !.pc = "batch", !.snap = snap, !.lo = 1,
                                     !.ipc = [i \in 1..Len(snap) |->
                                                IF i <= batchSize THEN "api" ELSE "wait"],
                                     !.imsg = [i \in 1..Len(snap) |-> NoError],
                                     !.result = res]]
                      /\ lastOp' = Step
                      /\ UNCHANGED isProcessing
  /\ UNCHANGED <<ext, queue, nextId, clock, timer, intervals, online, remoteCalls, hist>>

Failed(h, id, msg) ==
  [h EXCEPT ![id] = [@ EXCEPT !.fails = @ + 1, !.msg = msg]]

\* processUpdate lines 137-153: await apiService.updateMeasureData(measureData)
processUpdateDispatch(d, i) ==
  /\ drain[d].pc = "batch"
  /\ drain[d].ipc[i] = "api"
  /\ CanCall(isProcessing, drain)
  /\ \E ok \in StoreOutcomes(nextId \in DOMAIN hist) :
       /\ faults' = Fault(ok)
       /\ LET r == updateMeasureData(measureData(Item(d, i)), TRUE, ok, drain)
              to == IF r.ret.threw THEN "catch"
                    ELSE IF r.ret.success THEN "remove" ELSE "retry"
              msg == r.ret.error
          IN /\ queue' = r.queue
             /\ nextId' = r.nextId
             /\ clock' = r.clock
             /\ isProcessing' = r.isProcessing
             /\ drain' = [r.drain EXCEPT ![d].ipc[i] = to, ![d].imsg[i] = msg]
             /\ hist' = IF to = "remove" THEN hist ELSE Failed(hist, Item(d, i).id, msg)
             /\ lastOp' = [Op("processUpdate") EXCEPT
                             !.ok = r.ret.success, !.err = r.ret.error, !.pq = r.pq]
  /\ UNCHANGED <<ext, timer, intervals, online, listeners, remoteCalls>>

\* processUpdate lines 153-157: await removeUpdate(update.id); successCount++
processUpdateRemove(d, i) ==
  /\ drain[d].pc = "batch"
  /\ drain[d].ipc[i] = "remove"
  /\ \E ok \in StoreOutcomes(TRUE) :
       /\ faults' = Fault(ok)
       /\ IF ok
            THEN /\ queue' = removeUpdate(queue, Item(d, i).id)
                 /\ drain' = [drain EXCEPT ![d].ipc[i] = "done",
                                           ![d].result.successCount = @ + 1]
                 /\ hist' = [hist EXCEPT ![Item(d, i).id].gone = TRUE]
            ELSE /\ queue' = queue
                 /\ drain' = [drain EXCEPT ![d].ipc[i] = "catch",
                                           ![d].imsg[i] = ErrStore]
                 /\ hist' = Failed(hist, Item(d, i).id, ErrStore)
       /\ lastOp' = Step
  /\ UNCHANGED <<ext, nextId, clock, isProcessing, timer, intervals, online, listeners, remoteCalls>>

\* the retry count started again after the first retry
newRetryCountReset(update) == IF update.retry_count = 0 THEN 1 ELSE 0

\* the retry count written without the increment
newRetryCountSame(update) == update.retry_count

\* the retry count processUpdate writes (lines 160 and 179)
newRetryCount(update) == update.retry_count + 1

Recorded(res, id, msg) ==
  [res EXCEPT !.failureCount = @ + 1,
              !.errors = Append(@, [updateId |-> id,
                                    error |-> IF msg = NoError THEN ErrUnknown ELSE msg])]

\* processUpdate lines 158-174: failure result, await updateRetryCount(...)
processUpdateRetry(d, i) ==
  /\ drain[d].pc = "batch"
  /\ drain[d].ipc[i] = "retry"
  /\ \E ok \in StoreOutcomes(TRUE) :
       /\ faults' = Fault(ok)
       /\ IF ok
            THEN /\ queue' = updateRetryCount(queue, Item(d, i).id,
                                              newRetryCount(Item(d, i)), drain[d].imsg[i])
                 /\ drain' = [drain EXCEPT ![d].ipc[i] = "done",
                                ![d].result = Recorded(@, Item(d, i).id, drain[d].imsg[i])]
                 /\ hist' = hist
            ELSE /\ queue' = queue
                 /\ drain' = [drain EXCEPT ![d].ipc[i] = "catch",
                                           ![d].imsg[i] = ErrStore]
                 /\ hist' = [hist EXCEPT ![Item(d, i).id].msg = ErrStore]
       /\ lastOp' = Step
  /\ UNCHANGED <<ext, nextId, clock, isProcessing, timer, intervals, online, listeners, remoteCalls>>

\* processUpdate lines 175-192: catch block, await updateRetryCount(...)
processUpdateCatch(d, i) ==
  /\ drain[d].pc = "batch"
  /\ drain[d].ipc[i] = "catch"
  /\ \E ok \in StoreOutcomes(TRUE) :
       /\ faults' = Fault(ok)
       /\ IF ok
            THEN /\ queue' = updateRetryCount(queue, Item(d, i).id,
                                              newRetryCount(Item(d, i)), drain[d].imsg[i])
                 /\ drain' = [drain EXCEPT ![d].ipc[i] = "done",
                                ![d].result = Recorded(@, Item(d, i).id, drain[d].imsg[i])]
                 /\ hist' = hist
            ELSE /\ queue' = queue
                 /\ drain' = [drain EXCEPT ![d].ipc[i] = "rejected"]
                 /\ hist' = [hist EXCEPT ![Item(d, i).id].lost = TRUE]
       /\ lastOp' = Step
  /\ UNCHANGED <<ext, nextId, clock, isProcessing, timer, intervals, online, listeners, remoteCalls>>

Settled(dr) ==
  \A i \in dr.lo..BatchHi(dr) : dr.ipc[i] \in {"done", "rejected"}

\* processBatch line 129 resolves; processQueue lines 104-112 and 118-123
processBatchSettled(d) ==
  /\ drain[d].pc = "batch"
  /\ Settled(drain[d])
  /\ \E throwing \in Throwing, leaving \in Throwing :
       LET dr == drain[d]
           threw == processBatch(\E i \in dr.lo..BatchHi(dr) : dr.ipc[i] = "rejected")
       IN IF threw
            THEN Finish(d, dr.result, TRUE, throwing, leaving)
            ELSE IF dr.lo + batchSize <= Len(dr.snap)
              THEN /\ throwing = {}
                   /\ leaving = {}
                   /\ listeners' = listeners
                   /\ drain' = [drain EXCEPT ![d].pc = "pause"]
                   /\ lastOp' = Step
                   /\ UNCHANGED isProcessing
              ELSE Finish(d, dr.result, FALSE, throwing, leaving)
  /\ UNCHANGED <<ext, queue, nextId, clock, timer, intervals, online, remoteCalls, faults, hist>>

\* processQueue line 110: the pause between batches is over, next slice
batchPause(d) ==
  /\ drain[d].pc = "pause"
  /\ LET lo2 == drain[d].lo + batchSize
     IN drain' = [drain EXCEPT ![d].pc = "batch", ![d].lo = lo2,
                    ![d].ipc = [i \in 1..Len(drain[d].snap) |->
                                  IF i >= lo2 /\ i < lo2 + batchSize
                                    THEN "api" ELSE drain[d].ipc[i]]]
  /\ lastOp' = Step
  /\ UNCHANGED <<ext, queue, nextId, clock, isProcessing, timer, intervals, online, listeners,
                 remoteCalls, faults, hist>>


\* ------------------------------------------------- the local store's calls
mgrVars == <<isProcessing, timer, intervals, online, listeners, drain, remoteCalls, hist, handleVars>>
cacheVars == <<stakeholders, stakeholder_variables, refresh, loads>>

\* the outcomes of one operation of the store or of the file system
CallOutcomes(can) ==
  (IF can THEN {TRUE} ELSE {}) \cup (IF faults < MaxStoreFaults THEN {FALSE} ELSE {})

CallFree(cs) == \E c \in CallSlots : cs[c].pc = "idle"

FreeCall(cs) == CHOOSE c \in CallSlots : cs[c].pc = "idle" /\
                  \A e \in CallSlots : e < c => cs[e].pc # "idle"

\* every photo_uri taken for one of the store's own files
includesAlways(uri, segment) == uri # NoPhoto

\* removeUpdate line 227: update.photo_uri.includes('offline_photos/')
includes(uri, segment) == \E k \in 1..Len(uri.dir) : uri.dir[k] = segment

\* queueUpdate line 129: photoName?.split('.').pop() || 'jpg'
extension(photo) == IF photo.ext = "" THEN "jpg" ELSE photo.ext

\* queueUpdate lines 128-131: `${offlinePhotosDir}photo_${timestamp}.${extension}`
permanentUri(timestamp, photo) ==
  [dir |-> offlinePhotosDir, tag |-> "photo", n |-> timestamp, ext |-> extension(photo)]

\* the photo moved, not copied
moveAsync(fs, from, to) == (fs \ {from}) \cup {to}

\* FileSystem.copyAsync({from, to})
copyAsync(fs, from, to) == fs \cup {to}

\* FileSystem.deleteAsync(uri, {idempotent: true})
deleteAsync(fs, uri) == fs \ {uri}

\* the row always given the permanent name, copied or not
photoUriPermanent(original, permanent, copied) == permanent

\* queueUpdate lines 113 and 140-144: the copy's uri, the original if the
\* copy failed
photoUriAfterCopy(original, permanent, copied) ==
  IF copied THEN permanent ELSE original

\* what a finished store call hands back
Return(name, call, ok) ==
  [Op(name) EXCEPT !.ok = ok, !.threw = ~ok,
                   !.err = IF ok THEN NoError ELSE ErrStore, !.call = call]

\* the wall clock advances
tick ==
  /\ clock < MaxClock
  /\ clock' = clock + 1
  /\ lastOp' = Step
  /\ UNCHANGED <<queue, nextId, faults, files, calls, mgrVars, cacheVars>>

\* queueUpdate lines 102-117: now = new Date().toISOString(), photo or not
queueUpdateBegin(measures) ==
  \E m \in measures :
    /\ CallFree(calls)
    /\ calls' = [calls EXCEPT ![FreeCall(calls)] =
         [IdleCall EXCEPT !.op = "queueUpdate", !.m = m,
                          !.now = toISOString(clock), !.photoUri = m.photo,
                          !.pc = IF m.photo = NoPhoto THEN "insert" ELSE "dir"]]
    /\ lastOp' = Step
    /\ UNCHANGED <<queue, nextId, clock, faults, files, mgrVars, cacheVars>>

\* queueUpdate lines 120-137: the directory is there, timestamp = Date.now(),
\* the copy is started; or getInfoAsync/makeDirectoryAsync throws
queueUpdateName(c) ==
  /\ calls[c].pc = "dir"
  /\ \E ok \in CallOutcomes(TRUE) :
       /\ faults' = Fault(ok)
       /\ calls' = IF ok
            THEN [calls EXCEPT ![c].pc = "copy",
                               ![c].permanentUri = permanentUri(clock, calls[c].m.photo)]
            ELSE [calls EXCEPT ![c].pc = "insert", ![c].copyFailed = TRUE,
                               ![c].photoUri = photoUriAfterCopy(
                                  calls[c].m.photo, calls[c].permanentUri, FALSE)]
  /\ lastOp' = Step
  /\ UNCHANGED <<queue, nextId, clock, files, mgrVars, cacheVars>>

\* queueUpdate lines 134-144: copyAsync resolves or throws
queueUpdateCopy(c) ==
  /\ calls[c].pc = "copy"
  /\ \E ok \in CallOutcomes(calls[c].m.photo \in files) :
       /\ faults' = Fault(ok)
       /\ files' = IF ok
            THEN copyAsync(files, calls[c].m.photo, calls[c].permanentUri)
            ELSE files
       /\ calls' = [calls EXCEPT ![c].pc = "insert", ![c].copied = ok,
                                 ![c].copyFailed = ~ok,
                                 ![c].photoUri = photoUriAfterCopy(
                                    calls[c].m.photo, calls[c].permanentUri, ok)]
  /\ lastOp' = Step
  /\ UNCHANGED <<queue, nextId, clock, mgrVars, cacheVars>>

\* queueUpdate lines 147-170: the INSERT, return lastInsertRowId or rethrow
queueUpdateInsert(c) ==
  /\ calls[c].pc = "insert"
  /\ \E ok \in CallOutcomes(nextId <= MaxRows) :
       /\ faults' = Fault(ok)
       /\ queue' = IF ok
            THEN queue \cup {insertRow(calls[c].m, calls[c].photoUri, nextId, calls[c].now)}
            ELSE queue
       /\ nextId' = IF ok THEN nextId + 1 ELSE nextId
       /\ lastOp' = Return("queueUpdate",
                           [calls[c] EXCEPT !.id = IF ok THEN nextId ELSE 0], ok)
  /\ calls' = [calls EXCEPT ![c] = IdleCall]
  /\ UNCHANGED <<clock, files, mgrVars, cacheVars>>

\* removeUpdate lines 212-227: SELECT photo_uri FROM pending_updates WHERE id = ?
removeUpdateBegin ==
  \E id \in 1..MaxRows, ok \in CallOutcomes(TRUE) :
    /\ CallFree(calls)
    /\ faults' = Fault(ok)
    /\ LET c == FreeCall(calls)
           found == \E r \in queue : r.id = id
           uri == IF found THEN (CHOOSE r \in queue : r.id = id).photo_uri ELSE NoPhoto
           call == [IdleCall EXCEPT !.op = "removeUpdate", !.id = id,
                                    !.found = found, !.photoUri = uri]
       IN IF ok
            THEN /\ calls' = [calls EXCEPT ![c] =
                      [call EXCEPT !.pc = IF uri # NoPhoto /\ includes(uri, "offline_photos")
                                            THEN "unlink" ELSE "delete"]]
                 /\ lastOp' = Step
            ELSE /\ calls' = calls
                 /\ lastOp' = Return("removeUpdate", call, FALSE)
    /\ UNCHANGED <<queue, nextId, clock, files, mgrVars, cacheVars>>

\* removeUpdate lines 228-237: getInfoAsync, deleteAsync if the file exists;
\* what they throw is logged and dropped
removeUpdateUnlink(c) ==
  /\ calls[c].pc = "unlink"
  /\ \E ok \in CallOutcomes(TRUE) :
       /\ faults' = Fault(ok)
       /\ files' = IF ok /\ calls[c].photoUri \in files
                     THEN deleteAsync(files, calls[c].photoUri) ELSE files
       /\ calls' = [calls EXCEPT ![c].pc = "delete", ![c].unlinkFailed = ~ok]
  /\ lastOp' = Step
  /\ UNCHANGED <<queue, nextId, clock, mgrVars, cacheVars>>

\* removeUpdate lines 240-250: DELETE FROM pending_updates WHERE id = ?
removeUpdateDelete(c) ==
  /\ calls[c].pc = "delete"
  /\ \E ok \in CallOutcomes(TRUE) :
       /\ faults' = Fault(ok)
       /\ queue' = IF ok THEN removeUpdate(queue, calls[c].id) ELSE queue
       /\ lastOp' = Return("removeUpdate", calls[c], ok)
  /\ calls' = [calls EXCEPT ![c] = IdleCall]
  /\ UNCHANGED <<nextId, clock, files, mgrVars, cacheVars>>

\* updateRetryCount lines 253-273, with the count the queue manager passes
updateRetryCountCall ==
  \E r \in queue, ok \in CallOutcomes(TRUE) :
    /\ r.retry_count < MaxStoreFaults + 1
    /\ faults' = Fault(ok)
    /\ queue' = IF ok
         THEN updateRetryCount(queue, r.id, r.retry_count + 1, ErrUnknown)
         ELSE queue
    /\ lastOp' = Return("updateRetryCount", [IdleCall EXCEPT !.id = r.id], ok)
    /\ UNCHANGED <<nextId, clock, files, calls, mgrVars, cacheVars>>

\* ------------------------------------------------------- the two caches
Owners == 1..MaxOwners

\* what the server knows of one entity: its position in the server's
\* numbering, its name and, of a variable, the value of its latest measurement
Entries == [k : 1..MaxList, name : {"A"}, value : {"10"}]

\* data.stakeholders / data.variables: entries of distinct ids
ServerLists ==
  {l \in UNION {[1..n -> Entries] : n \in 0..MaxList} :
     \A i, j \in 1..Len(l) : i # j => l[i].k # l[j].k}

\* the row an INSERT writes for entry e: stakeholders(id, name) or
\* stakeholder_variables(id, stakeholder_id, variable, current_value,
\* latest_value), "" for NULL; every stakeholder has variables of its own
cacheRow(kind, owner, e) ==
  IF kind = "stakeholders"
    THEN [id |-> e.k, stakeholder_id |-> 0, name |-> e.name,
          current_value |-> "", latest_value |-> ""]
    ELSE [id |-> MaxList * (owner - 1) + e.k, stakeholder_id |-> owner, name |-> e.name,
          current_value |-> e.value, latest_value |-> e.value]

cacheRows(kind, owner, list) ==
  {cacheRow(kind, owner, list[i]) : i \in 1..Len(list)}

\* the table a refresh of this kind writes
cacheTable(kind) == IF kind = "stakeholders" THEN stakeholders ELSE stakeholder_variables

\* the rows of one owner scope in tables st and sv
scopeOf(st, sv, kind, owner) ==
  IF kind = "stakeholders" THEN st
  ELSE {r \in sv : r.stakeholder_id = owner}

cacheScope(kind, owner) == scopeOf(stakeholders, stakeholder_variables, kind, owner)

\* the stale rows left where they are
clearScopeKeep(table, kind, owner) == table

\* the DELETE without its WHERE clause
clearScopeAll(table, kind, owner) == {}

\* DELETE FROM stakeholders / DELETE FROM stakeholder_variables WHERE stakeholder_id = ?
clearScope(table, kind, owner) ==
  IF kind = "stakeholders" THEN {}
  ELSE {r \in table : r.stakeholder_id # owner}

\* INSERT OR REPLACE INTO ... (id is the primary key)
insertOrReplace(table, row) == {r \in table : r.id # row.id} \cup {row}

RefreshFree == \E f \in RefreshSlots : refresh[f].pc = "idle"

FreeRefresh == CHOOSE f \in RefreshSlots : refresh[f].pc = "idle" /\
                 \A e \in RefreshSlots : e < f => refresh[e].pc # "idle"

SameScope(r, kind, owner) == r.pc # "idle" /\ r.kind = kind /\ r.owner = owner

queueVars == <<queue, nextId, clock, files, calls, isProcessing, timer, intervals, listeners,
               drain, remoteCalls, hist, handleVars>>

\* the cache write of list started in slot f: the writes of the same scope
\* in flight and this one have overlapped (history)
startWrite(rf, f, kind, owner, list) ==
  LET others == {g \in RefreshSlots : SameScope(rf[g], kind, owner)}
  IN [g \in RefreshSlots |->
        IF g = f
          THEN [IdleRefresh EXCEPT
                  !.pc = "delete", !.kind = kind, !.owner = owner,
                  !.list = list,
                  !.overlap = IF others = {} THEN "none"
                              ELSE IF Cardinality(others) = 1 THEN "one"
                              ELSE "many",
                  !.peer = IF Cardinality(others) = 1
                             THEN rf[CHOOSE g2 \in others : TRUE].list
                             ELSE <<>>]
        ELSE IF g \in others
          THEN [rf[g] EXCEPT
                  !.overlap = IF @ = "none" THEN "one" ELSE "many",
                  !.peer = IF rf[g].overlap = "none" THEN list ELSE <<>>]
        ELSE rf[g]]

\* fetchStakeholdersInBackground / fetchStakeholderVariablesInBackground up
\* to the call of the cache write: offline, nothing is fetched; online, the
\* server answers with a list
fetchInBackground(kind, owner) ==
  /\ RefreshFree
  /\ IF ~online
       THEN /\ refresh' = refresh
            /\ lastOp' = Op("offline")
       ELSE \E list \in ServerLists :
              /\ refresh' = startWrite(refresh, FreeRefresh, kind, owner, list)
              /\ lastOp' = Step
  /\ UNCHANGED <<queueVars, online, faults, stakeholders, stakeholder_variables, loads>>

\* ApiService.getStakeholders
getStakeholders == fetchInBackground("stakeholders", 0)

\* ApiService.getStakeholderVariables(stakeholderId)
getStakeholderVariables == \E o \in Owners : fetchInBackground("variables", o)

\* `fresh` resolved with what the load handed back as `cached`
serverDataStale(cached, rows) == cached

\* api.ts 427 / 494: `return stakeholders`, `return variables`
serverData(cached, rows) == rows

\* `fresh` settles: the load's record as it ends, its slot free again
settle(ld, outcome, value, from) ==
  [ld EXCEPT !.pc = outcome, !.value = value, !.from = from]

\* the cache write is over: it resolved, or it threw and the fetch logged it
\* (api.ts 420-427, 487-494); the fetch that awaited it returns the server's
\* list
Cached(f, ok) ==
  /\ refresh' = [refresh EXCEPT ![f] = IdleRefresh]
  /\ loads' = [loads EXCEPT ![f] = IdleLoad]
  /\ lastOp' = [Op(IF refresh[f].kind = "stakeholders"
                     THEN "cacheStakeholders" ELSE "cacheStakeholderVariables")
                  EXCEPT !.ok = ok, !.threw = ~ok,
                         !.err = IF ok THEN NoError ELSE ErrStore,
                         !.refresh = [refresh[f] EXCEPT !.pc = "idle", !.k = 0,
                                                        !.peer = <<>>],
                         !.load = IF loads[f].pc = "cache"
                                    THEN settle(loads[f], "resolved",
                                                serverData(loads[f].cached,
                                                  cacheRows(refresh[f].kind, refresh[f].owner,
                                                            refresh[f].list)), "server")
                                    ELSE IdleLoad]

\* cacheStakeholders lines 321-326 / cacheStakeholderVariables lines 384-389:
\* the DELETE of the owner scope
cacheDelete(f) ==
  /\ refresh[f].pc = "delete"
  /\ \E ok \in CallOutcomes(TRUE) :
       LET r == refresh[f]
           t2 == IF ok THEN clearScope(cacheTable(r.kind), r.kind, r.owner)
                 ELSE cacheTable(r.kind)
       IN /\ faults' = Fault(ok)
          /\ stakeholders' = IF r.kind = "stakeholders" THEN t2 ELSE stakeholders
          /\ stakeholder_variables' =
               IF r.kind = "variables" THEN t2 ELSE stakeholder_variables
          /\ IF ok /\ Len(r.list) > 0
               THEN /\ refresh' = [refresh EXCEPT
                         ![f].pc = "insert", ![f].k = 1,
                         ![f].stale = (cacheScope(r.kind, r.owner) \
                                         cacheRows(r.kind, r.owner, r.list) # {})]
                    /\ lastOp' = Step
                    /\ loads' = loads
               ELSE Cached(f, ok)
  /\ UNCHANGED <<queueVars, online>>

\* cacheStakeholders lines 327-340 / cacheStakeholderVariables lines 390-422:
\* one INSERT OR REPLACE of the loop
cacheInsert(f) ==
  /\ refresh[f].pc = "insert"
  /\ \E ok \in CallOutcomes(TRUE) :
       LET r == refresh[f]
           t2 == IF ok THEN insertOrReplace(cacheTable(r.kind),
                                            cacheRow(r.kind, r.owner, r.list[r.k]))
                 ELSE cacheTable(r.kind)
       IN /\ faults' = Fault(ok)
          /\ stakeholders' = IF r.kind = "stakeholders" THEN t2 ELSE stakeholders
          /\ stakeholder_variables' =
               IF r.kind = "variables" THEN t2 ELSE stakeholder_variables
          /\ IF ok /\ r.k < Len(r.list)
               THEN /\ refresh' = [refresh EXCEPT ![f].k = @ + 1]
                    /\ lastOp' = Step
                    /\ loads' = loads
               ELSE Cached(f, ok)
  /\ UNCHANGED <<queueVars, online>>

\* ------------------------------------------------- the owner scopes
ScopeOwners == 1..MaxScopes

\* the full list of the server
FullList == CHOOSE l \in ServerLists : Len(l) = MaxList /\ \A i \in 1..MaxList : l[i].k = i

\* a session that cached the stakeholders and the variables of each of
\* them, and left one measurement queued
InitScope ==
  InitFull(1, cacheRows("stakeholders", 0, FullList),
           UNION {cacheRows("variables", o, FullList) : o \in ScopeOwners},
           {queueUpdate(CHOOSE m \in Measures : TRUE, 1, 1)}, MaxId)

\* no cache write is in flight
Quiet == \A f \in RefreshSlots : refresh[f].pc = "idle"

\* ApiService.getStakeholderVariables(stakeholderId) for each of them, one
\* screen at a time
getVariablesOf == Quiet /\ \E o \in ScopeOwners : fetchInBackground("variables", o)

\* ApiService.getStakeholders, called when no other load is in flight
getStakeholdersAlone == Quiet /\ getStakeholders

\* clearAllCache lines 478-486: up to the first DELETE
clearAllCacheBegin ==
  /\ CallFree(calls)
  /\ calls' = [calls EXCEPT ![FreeCall(calls)] =
       [IdleCall EXCEPT !.op = "clearAllCache", !.pc = "clearStakeholders"]]
  /\ lastOp' = Step
  /\ UNCHANGED <<queue, nextId, clock, faults, files, mgrVars, cacheVars>>

\* clearAllCache line 486: DELETE FROM stakeholders
clearAllCacheStakeholders(c) ==
  /\ calls[c].pc = "clearStakeholders"
  /\ \E ok \in CallOutcomes(TRUE) :
       /\ faults' = Fault(ok)
       /\ stakeholders' = IF ok THEN {} ELSE stakeholders
       /\ calls' = [calls EXCEPT ![c] =
            IF ok THEN [@ EXCEPT !.pc = "clearVariables"] ELSE IdleCall]
       /\ lastOp' = IF ok THEN Step ELSE Return("clearAllCache", calls[c], FALSE)
  /\ UNCHANGED <<queue, nextId, clock, files, mgrVars, stakeholder_variables, refresh, loads>>

\* clearAllCache lines 487-492: DELETE FROM stakeholder_variables, return
clearAllCacheVariables(c) ==
  /\ calls[c].pc = "clearVariables"
  /\ \E ok \in CallOutcomes(TRUE) :
       /\ faults' = Fault(ok)
       /\ stakeholder_variables' = IF ok THEN {} ELSE stakeholder_variables
       /\ lastOp' = Return("clearAllCache", calls[c], ok)
  /\ calls' = [calls EXCEPT ![c] = IdleCall]
  /\ UNCHANGED <<queue, nextId, clock, files, mgrVars, stakeholders, refresh, loads>>

\* ------------------------------------------------- the read-through loads
\* how a getCachedStakeholders / getCachedStakeholderVariables call can end:
\* with the rows; with [] because getAllAsync threw (offlineStorage.ts
\* 370-373, 472-475); thrown, because initialize() rejected or db is null
\* (350-354, 432-436)
ReadOutcomes ==
  {"rows"} \cup (IF faults < MaxStoreFaults THEN {"empty", "throws"} ELSE {})

\* a read that finds nothing whatever the table holds
selectNothing(st, sv, kind, owner) == {}

\* SELECT * FROM stakeholders / FROM stakeholder_variables WHERE stakeholder_id = ?
selectScope(st, sv, kind, owner) == scopeOf(st, sv, kind, owner)

\* what the caller of a getCached... call holds when it did not throw
getCached(kind, owner, out) ==
  IF out = "rows" THEN selectScope(stakeholders, stakeholder_variables, kind, owner)
  ELSE {}

LoadFree == \E l \in LoadSlots : loads[l].pc = "idle" /\ refresh[l].pc = "idle"

FreeLoad == CHOOSE l \in LoadSlots :
              /\ loads[l].pc = "idle" /\ refresh[l].pc = "idle"
              /\ \A e \in LoadSlots :
                   e < l => ~(loads[e].pc = "idle" /\ refresh[e].pc = "idle")

\* ApiService.getStakeholders / getStakeholderVariables, lines 376-390 and
\* 443-457: read the cache (what the read throws is logged, cached stays []),
\* start the background fetch, which runs up to its await of NetInfo.fetch(),
\* and return {cached, fresh}
getCall(kind, owner) ==
  /\ LoadFree
  /\ \E out \in ReadOutcomes :
       LET l == FreeLoad
           others == {g \in RefreshSlots : SameScope(loads[g], kind, owner)}
           ld == [IdleLoad EXCEPT !.pc = "netinfo", !.kind = kind, !.owner = owner,
                                  !.cached = getCached(kind, owner, out),
                                  !.alone = (others = {})]
       IN /\ faults' = Fault(out = "rows")
          /\ loads' = [g \in RefreshSlots |->
               IF g = l THEN ld
               ELSE IF g \in others THEN [loads[g] EXCEPT !.alone = FALSE]
               ELSE loads[g]]
          /\ lastOp' = [Op(IF kind = "stakeholders"
                             THEN "getStakeholders" ELSE "getStakeholderVariables")
                          EXCEPT !.ok = (out = "rows"), !.load = ld]
  /\ UNCHANGED <<queueVars, online, stakeholders, stakeholder_variables, refresh>>

getStakeholdersCall == getCall("stakeholders", 0)

getStakeholderVariablesCall == \E o \in Owners : getCall("variables", o)

\* the connectivity test of lines 395-396 and 462-463
isOnline(connected) == connected

\* the request sent whatever the connectivity
afterNetInfoFetch(threw, connected) == IF threw THEN "catch" ELSE "fetch"

\* lines 394-404 / 461-471: where the background fetch goes once
\* NetInfo.fetch() resolved or threw
afterNetInfo(threw, connected) ==
  IF threw THEN "catch"
  ELSE IF ~isOnline(connected) THEN "fallback"
  ELSE "fetch"

\* fetch...InBackground lines 395-412 / 462-479: NetInfo.fetch() resolved or
\* threw; offline, the cache is read instead; online, the request is sent
netInfoFetch(l) ==
  /\ loads[l].pc = "netinfo"
  /\ \E threw \in BOOLEAN :
       LET to == afterNetInfo(threw, online)
       IN loads' = [loads EXCEPT ![l] =
            [@ EXCEPT !.pc = to,
                      !.via = IF to = "catch" THEN "error"
                              ELSE IF to = "fallback" THEN "offline" ELSE "",
                      !.asked = (to = "fetch")]]
  /\ lastOp' = Step
  /\ UNCHANGED <<queueVars, online, faults, stakeholders, stakeholder_variables, refresh>>

\* fetch...InBackground lines 414-437 / 481-504: the remote service answers
\* with a list, with a non-OK status, or the request fails
fetchAnswer(l) ==
  /\ loads[l].pc = "fetch"
  /\ \/ \E list \in ServerLists :
          /\ loads' = [loads EXCEPT ![l].pc = "cache"]
          /\ refresh' = startWrite(refresh, l, loads[l].kind, loads[l].owner, list)
     \/ /\ loads' = [loads EXCEPT ![l].pc = "fallback", ![l].via = "status"]
        /\ refresh' = refresh
     \/ /\ loads' = [loads EXCEPT ![l].pc = "catch", ![l].via = "error"]
        /\ refresh' = refresh
  /\ lastOp' = Step
  /\ UNCHANGED <<queueVars, online, faults, stakeholders, stakeholder_variables>>

\* lines 401, 431, 436 / 468, 498, 503: `return await getCached...()`; inside
\* the try block what it throws goes to the catch block, inside the catch
\* block it rejects `fresh`
fallback(pc, out) ==
  IF out # "throws" THEN "resolved"
  ELSE IF pc = "fallback" THEN "catch" ELSE "rejected"

\* the fallback read of the background fetch ends
fallbackRead(l) ==
  /\ loads[l].pc \in {"fallback", "catch"}
  /\ \E out \in ReadOutcomes :
       LET to == fallback(loads[l].pc, out)
       IN /\ faults' = Fault(out = "rows")
          /\ IF to = "catch"
               THEN /\ loads' = [loads EXCEPT ![l].pc = "catch"]
                    /\ lastOp' = Step
               ELSE /\ loads' = [loads EXCEPT ![l] = IdleLoad]
                    /\ lastOp' = [Op("fresh") EXCEPT
                         !.ok = (out = "rows"), !.threw = (to = "rejected"),
                         !.err = IF to = "rejected" THEN ErrStore ELSE NoError,
                         !.load = settle(loads[l], to,
                                         getCached(loads[l].kind, loads[l].owner, out),
                                         "cache")]
  /\ UNCHANGED <<queueVars, online, stakeholders, stakeholder_variables, refresh>>

\* ------------------------------------------------- the offline report data
\* measurements of a cached variable, and of one that is not cached
ReportMeasures ==
  { [stakeholder_variable_id |-> 1, value |-> "12", measurement_date |-> "2024-03-02",
     file_description |-> "leak", photo |-> NoPhoto],
    [stakeholder_variable_id |-> 1, value |-> "15", measurement_date |-> "2024-03-03",
     file_description |-> "", photo |-> NoPhoto] }
  \cup {m \in StoreMeasures : m.photo = NoPhoto}

\* latest_data of a variable that has none
NoLatest ==
  [value |-> "", measurement_date |-> "", data_quality |-> "",
   has_attachments |-> FALSE, file_description |-> "", created_at |-> <<>>]

\* getCachedStakeholderVariables lines 446-471: the StakeholderVariable built
\* from a row; columns the row does not carry are NULL
rowToVariable(row) ==
  [id |-> row.id,
   variable |-> row.name,
   current_value |-> row.current_value,
   latest_data |-> IF row.latest_value # ""
                     THEN [NoLatest EXCEPT !.value = row.latest_value]
                     ELSE NoLatest]

\* rows in rowid order, the order of equal `variable` names
RECURSIVE SortById(_)
SortById(S) ==
  IF S = {} THEN <<>>
  ELSE LET m == CHOOSE r \in S : \A q \in S : r.id <= q.id
       IN <<m>> \o SortById(S \ {m})

\* OfflineStorageService.getCachedStakeholderVariables(stakeholderId):
\* SELECT ... WHERE stakeholder_id = ? ORDER BY variable ASC
getCachedStakeholderVariables(sv, stakeholderId) ==
  LET rows == SortById(scopeOf({}, sv, "variables", stakeholderId))
  IN [i \in 1..Len(rows) |-> rowToVariable(rows[i])]

\* new Date(created_at): the instant the text denotes
newDate(text) ==
  IF Len(text) = 1 THEN text[1] ELSE 10 * text[1] + text[2]

\* the first update of a variable kept, whatever comes after it
laterNever(update, existing) == FALSE

\* line 665: new Date(update.created_at) > new Date(existing.created_at)
later(update, existing) == newDate(update.created_at) > newDate(existing.created_at)

\* lines 661-668: latestUpdatesByVariable, the map as the set of its values
RECURSIVE latestUpdatesByVariable(_, _)
latestUpdatesByVariable(pendingUpdates, map) ==
  IF pendingUpdates = <<>> THEN map
  ELSE LET update == Head(pendingUpdates)
           existing == {e \in map :
                          e.stakeholder_variable_id = update.stakeholder_variable_id}
       IN latestUpdatesByVariable(Tail(pendingUpdates),
            IF existing = {} \/ later(update, CHOOSE e \in existing : TRUE)
              THEN (map \ existing) \cup {update}
              ELSE map)

\* an untargeted variable returned without its current value
passThroughCleared(variable) == [variable EXCEPT !.current_value = ""]

\* lines 674-677: no pending update for this variable, return as is
passThrough(variable) == variable

\* lines 680-693: the pending update merged into the variable
merged(variable, pendingUpdate) ==
  [variable EXCEPT
     !.current_value = pendingUpdate.value,
     !.latest_data = [value |-> pendingUpdate.value,
                      measurement_date |-> pendingUpdate.measurement_date,
                      data_quality |-> "pending",
                      has_attachments |-> (pendingUpdate.photo_uri # NoPhoto),
                      file_description |-> pendingUpdate.file_description,
                      created_at |-> pendingUpdate.created_at]]

\* mergePendingUpdatesWithVariables lines 656-697
mergePendingUpdatesWithVariables(variables, pendingUpdates) ==
  LET map == latestUpdatesByVariable(pendingUpdates, {})
  IN [i \in 1..Len(variables) |->
        LET hit == {u \in map : u.stakeholder_variable_id = variables[i].id}
        IN IF hit = {} THEN passThrough(variables[i])
           ELSE merged(variables[i], CHOOSE u \in hit : TRUE)]

\* a read that empties the table it reads
afterSelectDrain(table) == {}

\* a table after a SELECT on it
afterSelect(table) == table

\* generateDesviosReportFromOfflineData lines 703-743: the three reads of the
\* store, the filter and the merge, up to the call of the renderer.  "empty":
\* the read of the variables failed and returned []; "throws":
\* getPendingUpdates threw
generateDesviosReportFromOfflineData ==
  \E stakeholderId \in 1..MaxList, out \in ReadOutcomes :
    LET found == \E st \in stakeholders : st.id = stakeholderId
        variables == IF out = "empty" THEN <<>>
                     ELSE getCachedStakeholderVariables(stakeholder_variables, stakeholderId)
        allPendingUpdates == getPendingUpdates(queue)
        stakeholderPendingUpdates ==
          SelectSeq(allPendingUpdates,
                    LAMBDA update : \E i \in 1..Len(variables) :
                                      variables[i].id = update.stakeholder_variable_id)
        ok == found /\ out # "throws"
    IN /\ faults' = Fault(out = "rows")
       /\ queue' = afterSelect(queue)
       /\ stakeholders' = afterSelect(stakeholders)
       /\ stakeholder_variables' = afterSelect(stakeholder_variables)
       /\ lastOp' = [Op("generateDesviosReportFromOfflineData") EXCEPT
            !.ok = ok, !.threw = ~ok,
            !.err = IF ok THEN NoError ELSE IF found THEN ErrStore ELSE "not found",
            !.report = IF ~ok THEN IdleReport
              ELSE [stakeholderId |-> stakeholderId, cached |-> variables,
                    pending |-> stakeholderPendingUpdates,
                    variables |-> IF Len(stakeholderPendingUpdates) > 0
                      THEN mergePendingUpdatesWithVariables(variables,
                                                            stakeholderPendingUpdates)
                      ELSE variables]]
    /\ UNCHANGED <<nextId, clock, files, calls, mgrVars, refresh, loads>>

\* the queue as an earlier session left it: MaxLeft rows enqueued one
\* after the other
InitLeft ==
  InitFull(MaxLeft, {}, {},
           {queueUpdate(CHOOSE m \in Measures : TRUE, k, k) : k \in 1..MaxLeft},
           MaxLeftId)

\* the caches as an earlier session left them
InitReport ==
  \E sl, vl \in ServerLists :
    InitWith(MinClock, cacheRows("stakeholders", 0, sl), cacheRows("variables", 1, vl))

\* ---------------------------------------------------- the store's handle
InitSlots == 1..MaxInits

\* the operations that await initialize(): the constructor of the queue
\* manager, which runs no statement after it, and the public methods of the
\* store
InitCallers == {"constructor", "getPendingUpdates"}

\* what remains of the other tables while the handle is opened
storeVars == <<queue, nextId, clock, isProcessing, timer, intervals, online, listeners, drain,
               remoteCalls, hist, files, calls, stakeholders,
               stakeholder_variables, refresh, loads>>

\* initialize line 24: `if (this.isInitialized) return`, else open
initialize(initialized) == IF initialized THEN "return" ELSE "open"

\* the statement of an operation runs on this.db (lines 105-107, 176-181)
useDb(op) == IF op = "constructor" THEN used ELSE used \cup {db}

\* OfflineQueueManager.initialize line 23 / a public method's first line:
\* await offlineStorageService.initialize(); initialized, the method goes on
initializeCall(c) ==
  /\ inits[c].pc = "idle"
  /\ \E op \in InitCallers :
       LET to == initialize(isInitialized)
       IN /\ inits' = IF to = "return" THEN inits
                      ELSE [inits EXCEPT ![c] = [pc |-> to, k |-> 0, op |-> op]]
          /\ used' = IF to = "return" THEN useDb(op) ELSE used
          /\ lastOp' = IF to = "return" THEN Op(op) ELSE Step
  /\ UNCHANGED <<storeVars, faults, db, isInitialized, opened>>

\* initialize line 27: this.db = await SQLite.openDatabaseAsync(...)
openDatabaseAsync(c) ==
  /\ inits[c].pc = "open"
  /\ \E ok \in CallOutcomes(opened < MaxOpens) :
       /\ faults' = Fault(ok)
       /\ db' = IF ok THEN opened + 1 ELSE db
       /\ opened' = IF ok THEN opened + 1 ELSE opened
       /\ inits' = [inits EXCEPT ![c] =
            IF ok THEN [@ EXCEPT !.pc = "exec", !.k = 1] ELSE IdleInit]
       /\ lastOp' = IF ok THEN Step
                     ELSE [Op(inits[c].op) EXCEPT
                             !.ok = FALSE, !.err = ErrStore,
                             !.threw = (inits[c].op # "constructor")]
  /\ UNCHANGED <<storeVars, isInitialized, used>>

\* initialize lines 30-99: one execAsync resolves or throws; after the last
\* one isInitialized = true and the operation runs its statement
execAsync(c) ==
  /\ inits[c].pc = "exec"
  /\ \E ok \in CallOutcomes(TRUE) :
       LET last == inits[c].k = schemaStatements
       IN /\ faults' = Fault(ok)
          /\ isInitialized' = IF ok /\ last THEN TRUE ELSE isInitialized
          /\ used' = IF ok /\ last THEN useDb(inits[c].op) ELSE used
          /\ inits' = [inits EXCEPT ![c] =
               IF ok /\ ~last THEN [@ EXCEPT !.k = @ + 1] ELSE IdleInit]
          /\ lastOp' = IF ok /\ ~last THEN Step
                        ELSE [Op(inits[c].op) EXCEPT
                                !.ok = ok, !.err = IF ok THEN NoError ELSE ErrStore,
                                !.threw = (~ok /\ inits[c].op # "constructor")]
  /\ UNCHANGED <<storeVars, db, opened>>

\* ------------------------------------------------------------------ Next
\* the store's operations called while the handle is being opened
HandleNext ==
  \/ \E c \in InitSlots : initializeCall(c)
  \/ \E c \in InitSlots : openDatabaseAsync(c)
  \/ \E c \in InitSlots : execAsync(c)

\* a step of a drain in flight
DrainStep ==
  \/ \E d \in Slots : processQueueLoad(d)
  \/ \E d \in Slots : \E i \in 1..Len(drain[d].snap) : processUpdateDispatch(d, i)
  \/ \E d \in Slots : \E i \in 1..Len(drain[d].snap) : processUpdateRemove(d, i)
  \/ \E d \in Slots : \E i \in 1..Len(drain[d].snap) : processUpdateRetry(d, i)
  \/ \E d \in Slots : \E i \in 1..Len(drain[d].snap) : processUpdateCatch(d, i)
  \/ \E d \in Slots : processBatchSettled(d)

\* the queue: submit, "sync now", clear, and the drain
QueueNext ==
  \/ handleSubmit
  \/ handleProcessQueue
  \/ clearAllPending
  \/ DrainStep

\* one drain of a queue of more than one batch
BatchNext ==
  \/ handleProcessQueue
  \/ DrainStep
  \/ \E d \in Slots : batchPause(d)

\* cache writes of several owner scopes and cache clears, a measurement
\* queued
ScopeNext ==
  \/ getStakeholdersAlone
  \/ getVariablesOf
  \/ \E f \in RefreshSlots : cacheDelete(f)
  \/ \E f \in RefreshSlots : cacheInsert(f)
  \/ clearAllCacheBegin
  \/ \E c \in CallSlots : clearAllCacheStakeholders(c)
  \/ \E c \in CallSlots : clearAllCacheVariables(c)

\* the queue with the periodic trigger
TriggerNext ==
  \/ QueueNext
  \/ startAutoProcessing
  \/ stopAutoProcessing
  \/ timerTick

\* the queue with subscribers
ListenerNext ==
  \/ QueueNext
  \/ addListener
  \/ removeListener

\* the queue with connectivity changes
NetNext ==
  \/ QueueNext
  \/ netChange

\* the local store called directly, its calls overlapping
StoreNext ==
  \/ tick
  \/ queueUpdateBegin(StoreMeasures)
  \/ \E c \in CallSlots : queueUpdateName(c)
  \/ \E c \in CallSlots : queueUpdateCopy(c)
  \/ \E c \in CallSlots : queueUpdateInsert(c)
  \/ removeUpdateBegin
  \/ \E c \in CallSlots : removeUpdateUnlink(c)
  \/ \E c \in CallSlots : removeUpdateDelete(c)

\* enqueues without photos, removals and retry updates in any order
OrderNext ==
  \/ tick
  \/ queueUpdateBegin({m \in StoreMeasures : m.photo = NoPhoto})
  \/ \E c \in CallSlots : queueUpdateInsert(c)
  \/ removeUpdateBegin
  \/ \E c \in CallSlots : removeUpdateDelete(c)
  \/ updateRetryCountCall

\* measurements queued through the store, and reports generated from the
\* caches and the queue
ReportNext ==
  \/ tick
  \/ queueUpdateBegin(ReportMeasures)
  \/ \E c \in CallSlots : queueUpdateInsert(c)
  \/ generateDesviosReportFromOfflineData

\* the read-through loads from their call to the settling of `fresh`
LoadNext ==
  \/ getStakeholdersCall
  \/ getStakeholderVariablesCall
  \/ \E l \in RefreshSlots : netInfoFetch(l)
  \/ \E l \in RefreshSlots : fetchAnswer(l)
  \/ \E l \in RefreshSlots : fallbackRead(l)
  \/ \E f \in RefreshSlots : cacheDelete(f)
  \/ \E f \in RefreshSlots : cacheInsert(f)
  \/ netChange

\* the read-through caches: fetches in the background, their cache writes
\* overlapping
CacheNext ==
  \/ getStakeholders
  \/ getStakeholderVariables
  \/ \E f \in RefreshSlots : cacheDelete(f)
  \/ \E f \in RefreshSlots : cacheInsert(f)
  \/ netChange

Next ==
  \/ QueueNext
  \/ startAutoProcessing
  \/ stopAutoProcessing
  \/ timerTick
  \/ addListener
  \/ removeListener
  \/ netChange
  \/ StoreNext
  \/ updateRetryCountCall
  \/ CacheNext
  \/ LoadNext
  \/ generateDesviosReportFromOfflineData
  \/ HandleNext
  \/ BatchNext
  \/ ScopeNext

Spec == Init /\ [][Next]_vars
SpecQueue == Init /\ [][QueueNext]_vars
SpecTriggers == Init /\ [][TriggerNext]_vars
SpecListeners == Init /\ [][ListenerNext]_vars
SpecNet == Init /\ [][NetNext]_vars
SpecStore == InitLater /\ [][StoreNext]_vars
SpecOrder == InitLater /\ [][OrderNext]_vars
SpecCache == Init /\ [][CacheNext]_vars
SpecLoad == Init /\ [][LoadNext]_vars
SpecReport == InitReport /\ [][ReportNext]_vars
SpecHandle == Init /\ [][HandleNext]_vars
SpecBatch == InitLeft /\ [][BatchNext]_vars
SpecScope == InitScope /\ [][ScopeNext]_vars

\* the steps of a load that wait for the device only: NetInfo and the local
\* store answer; the remote service may never do
LocalStep ==
  \/ \E l \in RefreshSlots : netInfoFetch(l)
  \/ \E l \in RefreshSlots : fallbackRead(l)
  \/ \E f \in RefreshSlots : cacheDelete(f)
  \/ \E f \in RefreshSlots : cacheInsert(f)

SpecLoadFair == SpecLoad /\ WF_vars(LocalStep)

TypeOK ==
  /\ nextId \in 1..(Cardinality(DOMAIN hist) + 1)
  /\ faults \in 0..MaxFaults
  /\ isProcessing \in BOOLEAN
  /\ timer \in BOOLEAN
  /\ intervals \in 0..MaxIntervals
  /\ online \in BOOLEAN
  /\ \A r \in queue : r.id \in DOMAIN hist
  /\ clock \in 0..99
  /\ \A c \in CallSlots : calls[c].pc \in {"idle", "dir", "copy", "insert", "unlink", "delete",
                                        "clearStakeholders", "clearVariables"}
  /\ \A f \in RefreshSlots : refresh[f].pc \in {"idle", "delete", "insert"}
  /\ \A l \in RefreshSlots :
       loads[l].pc \in {"idle", "netinfo", "fetch", "cache", "fallback", "catch"}
  /\ \A r \in stakeholders : r.id \in 1..MaxList
  /\ \A r \in stakeholder_variables : r.stakeholder_id \in Owners \cup ScopeOwners

\* ================================================================ claims
Ids(q) == {r.id : r \in q}
Idle == InFlight(drain) = {}
Returned(d) == drain[d].pc # "idle" /\ drain'[d].pc = "idle"

\* C1: once a drain in which the local store worked, nothing was submitted
\* or cleared and every dispatch reported success has returned, each
\* measurement it found queued has been received by the remote service and
\* its row is out of the queue.
C1_DrainedIsSubmitted ==
  [][\A d \in Slots :
       (/\ Returned(d)
        /\ ~drain[d].dirty
        /\ faults' = 0
        /\ lastOp'.res.totalProcessed > 0
        /\ lastOp'.res.successCount = lastOp'.res.totalProcessed)
         => \A i \in 1..Len(drain[d].snap) :
              /\ measureData(Item(d, i)) \in remoteCalls'
              /\ Item(d, i).id \notin Ids(queue')]_vars

\* C2: when a drain returns and the user neither submitted nor cleared
\* during it, the queue count is the count at the call minus successCount.
C2_CountAfterDrain ==
  [][\A d \in Slots :
       (Returned(d) /\ ~drain[d].dirty)
         => getPendingUpdatesCount(queue') = drain[d].count0 - lastOp'.res.successCount]_vars

\* C3: an update is counted in successCount only if the remote service
\* received a submit call with its variable id, value and date.
C3_SuccessMeansReceived ==
  [][\A d \in Slots :
       (drain[d].pc = "batch" /\ drain'[d].pc = "batch"
        /\ drain'[d].result.successCount > drain[d].result.successCount)
         => \A i \in 1..Len(drain[d].snap) :
              (drain[d].ipc[i] # "done" /\ drain'[d].ipc[i] = "done")
                => measureData(Item(d, i)) \in remoteCalls]_vars

\* C4: a row leaves the queue only after the remote service confirmed it,
\* or through clearAllUpdates.
C4_RemovedOnlyConfirmed ==
  [][\A r \in queue :
       r.id \notin Ids(queue')
         => (lastOp'.op = "clearAllPending" \/ Content(r) \in remoteCalls)]_vars

C6_SingleFlight ==
  /\ [](Cardinality(InFlight(drain)) <= 1)
  /\ [][(lastOp'.pq = "skipped")
          => /\ InFlight(drain) # {}
             /\ InFlight(drain') = InFlight(drain)
             /\ isProcessing' = isProcessing
             /\ (lastOp'.op \in {"timerTick", "handleProcessQueue", "startAutoProcessing"}
                   => /\ lastOp'.res = ZeroResult
                      /\ queue' = queue
                      /\ drain' = drain)]_vars

C6_Witness ==
  /\ lastOp.op = "timerTick"
  /\ lastOp.pq = "skipped"
  /\ \E d \in Slots : drain[d].pc = "batch"

\* C7: a processQueue() call never rejects, whatever the store, the
\* dispatch or a listener did; the failures are in result.errors.
C7_NeverRejects ==
  lastOp.op \in {"processQueue", "timerTick", "handleProcessQueue", "startAutoProcessing"}
    => ~lastOp.threw

C7_Witness ==
  /\ lastOp.op = "processQueue"
  /\ lastOp.thr # {}
  /\ lastOp.res.failureCount > 0
  /\ Len(lastOp.res.errors) > 0

\* C8: whenever no drain is in flight the guard is released.
C8_GuardReleased == Idle => ~isProcessing

C8_Witness ==
  /\ lastOp.op = "processQueue"
  /\ ~lastOp.ok
  /\ Idle
  /\ ~isProcessing

\* C9: the submit returns success exactly when the row was written, and
\* the row is in the queue when it returns, online or offline.
C9_SubmitWritesFirst ==
  [][(lastOp'.op = "updateMeasureData")
       => /\ lastOp'.ok <=> (nextId \in Ids(queue'))
          /\ lastOp'.ok <=> (faults' = faults)
          /\ lastOp'.ok => \E r \in queue' : /\ r.id = nextId
                                             /\ r.retry_count = 0
                                             /\ Content(r) \in Measures
          /\ ~lastOp'.ok => queue' = queue]_vars

C9_Witness ==
  /\ lastOp.op = "updateMeasureData"
  /\ lastOp.ok
  /\ ~online
  /\ queue # {}

\* C10: when the local store fails during the enqueue the submit does not
\* throw, returns success = false with a message, adds no row and fires no
\* drain.
C10_LocalFailure ==
  [][(lastOp'.op = "updateMeasureData" /\ faults' # faults)
       => /\ ~lastOp'.threw
          /\ ~lastOp'.ok
          /\ lastOp'.err # NoError
          /\ queue' = queue
          /\ lastOp'.pq = "none"
          /\ drain' = drain
          /\ isProcessing' = isProcessing]_vars

C10_Witness ==
  /\ lastOp.op = "updateMeasureData"
  /\ ~lastOp.ok
  /\ lastOp.err = ErrLocalSave

\* C11: a submit of the form fires a drain attempt only while the device is
\* online.
C11_DrainOnlyOnline ==
  [][(lastOp'.op = "updateMeasureData" /\ lastOp'.pq # "none") => online]_vars

\* the instant a created_at text denotes
createdAt(r) ==
  IF Len(r.created_at) = 1 THEN r.created_at[1]
  ELSE 10 * r.created_at[1] + r.created_at[2]

\* C12: getPendingUpdates() returns every pending row once, in non-decreasing
\* createdAt order.
C12_OldestFirst ==
  LET s == getPendingUpdates(queue)
  IN /\ Len(s) = Cardinality(queue)
     /\ {s[i] : i \in 1..Len(s)} = queue
     /\ \A i, j \in 1..Len(s) : i < j => createdAt(s[i]) <= createdAt(s[j])

C12_Witness ==
  \E r, q \in queue : /\ r.id < q.id
                      /\ createdAt(q) < createdAt(r)
                      /\ createdAt(q) < 10
                      /\ createdAt(r) >= 10
                      /\ q.retry_count > 0
                      /\ getPendingUpdates(queue) = <<q, r>>

\* C13: a row is inserted with retry_count 0, its retry_count never
\* decreases, and it leaves the queue only through the removal that follows
\* a successful dispatch or through clearAllUpdates.
C13_RetryCountMonotone ==
  [][/\ \A q \in queue' : q.id \notin Ids(queue) => q.retry_count = 0
     /\ \A r \in queue : \A q \in queue' :
          r.id = q.id => q.retry_count >= r.retry_count
     /\ \A r \in queue : r.id \notin Ids(queue')
          => \/ lastOp'.op = "clearAllPending"
             \/ \E d \in Slots : \E i \in 1..Len(drain[d].snap) :
                  /\ Item(d, i).id = r.id
                  /\ drain[d].ipc[i] = "remove"
                  /\ drain'[d].ipc[i] = "done"]_vars

C13_Witness ==
  \E r \in queue : /\ r.retry_count >= 2
                   /\ hist[r.id].fails >= 2
                   /\ nextId > r.id + 1

\* C14: removeUpdate(id) for an id that is not in the queue touches no file,
\* does not throw and leaves the queue as it is; a removeUpdate never changes
\* a row of another id.
C14_RemoveIdempotent ==
  [][\A c \in CallSlots :
       /\ (calls[c].pc = "idle" /\ calls'[c].op = "removeUpdate" /\ ~calls'[c].found)
            => (calls'[c].pc = "delete" /\ files' = files /\ queue' = queue)
       /\ (calls[c].op = "removeUpdate" /\ calls[c].pc = "delete" /\ calls'[c].pc = "idle")
            => /\ \A r \in queue : r.id # calls[c].id => r \in queue'
               /\ (calls[c].id \notin Ids(queue) /\ faults' = faults)
                    => (~lastOp'.threw /\ queue' = queue /\ files' = files)]_vars

C14_Witness ==
  /\ lastOp.op = "removeUpdate"
  /\ lastOp.ok
  /\ ~lastOp.call.found
  /\ lastOp.call.id < nextId
  /\ queue # {}

\* C15: a file is deleted only by removeUpdate, only as the photo of the row
\* being removed and only inside the owned photo directory; when the file
\* cannot be deleted the row is still deleted and removeUpdate does not throw.
C15_PhotoCleanup ==
  [][/\ \A f \in files \ files' :
          \E c \in CallSlots : /\ calls[c].op = "removeUpdate"
                               /\ calls[c].pc = "unlink"
                               /\ calls[c].photoUri = f
                               /\ f.dir = offlinePhotosDir
     /\ \A c \in CallSlots :
          /\ (calls[c].pc = "unlink" /\ calls'[c] # calls[c]) => calls'[c].pc = "delete"
          /\ (calls[c].pc = "delete" /\ calls'[c].pc = "idle"
              /\ calls[c].unlinkFailed /\ faults' = faults)
               => (~lastOp'.threw /\ calls[c].id \notin Ids(queue'))]_vars

C15_Witness ==
  /\ lastOp.op = "removeUpdate"
  /\ lastOp.ok
  /\ lastOp.call.found
  /\ lastOp.call.unlinkFailed
  /\ lastOp.call.photoUri \in files
  /\ lastOp.call.id \notin Ids(queue)

\* C16: the copy into the owned directory is done in a step before the
\* INSERT and leaves the original file in place; the row inserted after a
\* successful copy references the copy, not the original.
C16_CopyBeforeInsert ==
  [][\A c \in CallSlots :
       /\ (calls[c].pc = "copy" /\ calls'[c].copied)
            => /\ calls[c].permanentUri \in files'
               /\ calls[c].m.photo \in files'
               /\ queue' = queue
               /\ calls'[c].pc = "insert"
       /\ (calls[c].pc = "insert" /\ calls[c].copied
           /\ calls'[c].pc = "idle" /\ nextId' # nextId)
            => /\ calls[c].m.photo \in files'
               /\ \E r \in queue' \ queue :
                    /\ r.id = nextId
                    /\ r.photo_uri = calls[c].permanentUri
                    /\ r.photo_uri # calls[c].m.photo
                    /\ r.photo_uri.dir = offlinePhotosDir]_vars

C16_Witness ==
  /\ lastOp.op = "queueUpdate"
  /\ lastOp.ok
  /\ lastOp.call.copied
  /\ lastOp.call.m.photo \in files
  /\ \E r \in queue : /\ r.id = lastOp.call.id
                      /\ r.photo_uri = lastOp.call.permanentUri
                      /\ r.photo_uri \in files

\* C17: a failed photo copy does not end the enqueue: the call goes on to
\* the INSERT with the original URI, and when the INSERT succeeds the row
\* holds the original URI and queueUpdate returns the new id.
C17_CopyFailureFallback ==
  [][\A c \in CallSlots :
       /\ (calls[c].pc \in {"dir", "copy"} /\ calls'[c].copyFailed)
            => /\ calls'[c].pc = "insert"
               /\ calls'[c].photoUri = calls[c].m.photo
               /\ ~lastOp'.threw
       /\ (calls[c].pc = "insert" /\ calls[c].copyFailed
           /\ calls'[c].pc = "idle" /\ faults' = faults)
            => /\ lastOp'.ok
               /\ lastOp'.call.id = nextId
               /\ \E r \in queue' \ queue : /\ r.id = nextId
                                            /\ r.photo_uri = calls[c].m.photo]_vars

C17_Witness ==
  /\ lastOp.op = "queueUpdate"
  /\ lastOp.ok
  /\ lastOp.call.copyFailed
  /\ lastOp.call.permanentUri # NoPhoto
  /\ \E r \in queue : /\ r.id = lastOp.call.id
                      /\ r.photo_uri \in Photos

\* C18: no two pending rows reference the same file of the owned photo
\* directory.
C18_PhotoNamesDistinct ==
  \A r, q \in queue :
    (r.id # q.id /\ r.photo_uri.dir = offlinePhotosDir) => r.photo_uri # q.photo_uri

Completes(f) == refresh[f].pc # "idle" /\ refresh'[f].pc = "idle" /\ lastOp'.ok

\* C19: when a cache write that no other write of the same scope overlapped
\* completes, the rows of its scope are exactly the K entries of its list.
C19_CacheIsList ==
  [][\A f \in RefreshSlots :
       (Completes(f) /\ refresh[f].overlap = "none")
         => /\ scopeOf(stakeholders', stakeholder_variables',
                       refresh[f].kind, refresh[f].owner)
                 = cacheRows(refresh[f].kind, refresh[f].owner, refresh[f].list)
            /\ Cardinality(scopeOf(stakeholders', stakeholder_variables',
                                   refresh[f].kind, refresh[f].owner))
                 = Len(refresh[f].list)]_vars

C19_Witness ==
  /\ lastOp.op = "cacheStakeholderVariables"
  /\ lastOp.ok
  /\ lastOp.refresh.overlap = "none"
  /\ lastOp.refresh.stale
  /\ Len(lastOp.refresh.list) = 1
  /\ Cardinality(cacheScope("variables", lastOp.refresh.owner)) = 1
  /\ stakeholders # {}

\* C20: when the later of two overlapping refreshes of one scope completes,
\* the store having worked throughout, the rows of the scope are the list of
\* one of the two.
C20_OneGeneration ==
  [][\A f \in RefreshSlots :
       (/\ Completes(f)
        /\ faults' = 0
        /\ refresh[f].overlap = "one"
        /\ \A g \in RefreshSlots :
             ~SameScope(refresh'[g], refresh[f].kind, refresh[f].owner))
         => scopeOf(stakeholders', stakeholder_variables',
                    refresh[f].kind, refresh[f].owner)
              \in {cacheRows(refresh[f].kind, refresh[f].owner, refresh[f].list),
                   cacheRows(refresh[f].kind, refresh[f].owner, refresh[f].peer)}]_vars

\* C21: a load returns `cached` with `fresh` still pending and before any
\* request to the remote service was sent; when the read of the store
\* worked, `cached` is the content of the scope at that moment.
C21_CachedAtOnce ==
  (lastOp.op \in {"getStakeholders", "getStakeholderVariables"} /\ lastOp.load.pc # "idle")
    => /\ ~lastOp.threw
       /\ lastOp.load.pc = "netinfo"
       /\ ~lastOp.load.asked
       /\ \E l \in LoadSlots : loads[l] = lastOp.load
       /\ lastOp.ok => lastOp.load.cached = cacheScope(lastOp.load.kind, lastOp.load.owner)

C21_Witness ==
  /\ lastOp.op = "getStakeholderVariables"
  /\ lastOp.ok
  /\ lastOp.load.cached # {}
  /\ lastOp.load.cached = cacheScope("variables", lastOp.load.owner)
  /\ online

\* C22: when NetInfo reports the device offline the background fetch sends
\* no request and goes on to read the cache; it never writes the cache, and
\* when that read worked `fresh` resolves with the rows of the scope, which
\* are the rows handed back as `cached` if the store worked throughout and
\* no other load of the scope was in flight.
C22_OfflineIsCached ==
  [][\A l \in LoadSlots :
       /\ (loads[l].pc = "netinfo" /\ ~online /\ loads'[l].pc \notin {"netinfo", "catch"})
            => (loads'[l].pc = "fallback" /\ ~loads'[l].asked /\ refresh' = refresh)
       /\ (loads[l].via = "offline")
            => /\ refresh'[l] = refresh[l]
               /\ ~loads'[l].asked
               /\ (stakeholders' # stakeholders
                   \/ stakeholder_variables' # stakeholder_variables)
                    => \E g \in RefreshSlots \ {l} : refresh'[g] # refresh[g]
       /\ (loads[l].via = "offline" /\ loads'[l].pc = "idle" /\ lastOp'.ok)
            => /\ lastOp'.load.pc = "resolved"
               /\ lastOp'.load.from = "cache"
               /\ lastOp'.load.value = cacheScope(loads[l].kind, loads[l].owner)
               /\ (faults' = 0 /\ loads[l].alone)
                    => lastOp'.load.value = loads[l].cached]_vars

C22_Witness ==
  /\ lastOp.op = "fresh"
  /\ lastOp.ok
  /\ lastOp.load.via = "offline"
  /\ lastOp.load.pc = "resolved"
  /\ lastOp.load.value # {}
  /\ lastOp.load.value = lastOp.load.cached
  /\ ~online

\* C23: `fresh` never rejects.
C23_FreshNeverRejects == lastOp.load.pc # "rejected"

C25_FreshSettles ==
  \A l \in LoadSlots : (loads[l].pc # "idle") ~> (loads[l].pc = "idle")

Report == lastOp.report
Generated == lastOp.op = "generateDesviosReportFromOfflineData" /\ lastOp.ok
Targeting(id) == {u \in queue : u.stakeholder_variable_id = id}

\* C26: in the variable list of a generated report, a cached variable that
\* pending updates target carries the value, date, description and createdAt
\* of one targeting update of the latest createdAt, as current value and as
\* latest measurement, with data quality "pending".
C26_MergeOverlay ==
  Generated =>
    \A i \in 1..Len(Report.cached) :
      Targeting(Report.cached[i].id) # {} =>
        \E u \in Targeting(Report.cached[i].id) :
          /\ \A w \in Targeting(Report.cached[i].id) : createdAt(w) <= createdAt(u)
          /\ Report.variables[i].current_value = u.value
          /\ Report.variables[i].latest_data.value = u.value
          /\ Report.variables[i].latest_data.measurement_date = u.measurement_date
          /\ Report.variables[i].latest_data.file_description = u.file_description
          /\ Report.variables[i].latest_data.created_at = u.created_at
          /\ Report.variables[i].latest_data.data_quality = "pending"

C26_Witness ==
  /\ Generated
  /\ \E u, w \in queue :
       /\ u.stakeholder_variable_id = 1
       /\ w.stakeholder_variable_id = 1
       /\ u.id < w.id
       /\ createdAt(w) < createdAt(u)
       /\ u.value # w.value
       /\ Len(Report.cached) > 0
       /\ Report.cached[1].current_value = "10"
       /\ Report.variables[1].current_value = u.value
       /\ Report.variables[1].latest_data.file_description = u.file_description

\* C27: the variable list of a generated report has the length, the ids and
\* the order of the cached list that was read, and a variable no pending
\* update targets is in it as it was read.
C27_PassThrough ==
  Generated =>
    /\ Len(Report.variables) = Len(Report.cached)
    /\ Report.cached \in
         {<<>>, getCachedStakeholderVariables(stakeholder_variables, Report.stakeholderId)}
    /\ \A i \in 1..Len(Report.cached) :
         /\ Report.variables[i].id = Report.cached[i].id
         /\ Targeting(Report.cached[i].id) = {} => Report.variables[i] = Report.cached[i]

C27_Witness ==
  /\ Generated
  /\ Len(Report.cached) = 2
  /\ Len(Report.pending) > 0
  /\ Report.variables[1] # Report.cached[1]
  /\ Report.variables[2] = Report.cached[2]
  /\ Report.cached[2].current_value = "10"

\* C28: a report generation, finished or failed, leaves the pending queue,
\* the two caches and the files as they are.
C28_ReportReadOnly ==
  [][(lastOp'.op = "generateDesviosReportFromOfflineData")
       => /\ queue' = queue
          /\ stakeholders' = stakeholders
          /\ stakeholder_variables' = stakeholder_variables
          /\ files' = files]_vars

C28_Witness ==
  /\ Generated
  /\ Len(Report.pending) > 0
  /\ Report.variables # Report.cached
  /\ Cardinality(queue) = 2
  /\ stakeholders # {}

\* C29: when a drain that took the guard returns, every listener that was
\* subscribed has been invoked once, with the result the drain returns: the
\* zero result after an empty queue or a failed read, the counts of the
\* batches otherwise.
C29_AllNotifiedOnce ==
  [][\A d \in Slots :
       Returned(d)
         => /\ lastOp'.inv = listeners
            /\ lastOp'.res = IF drain[d].pc = "load" THEN ZeroResult
                             ELSE drain[d].result]_vars

\* C30: when a drain returns and no listener unsubscribed during the
\* delivery, the listeners were invoked in subscription order, those after a
\* throwing one included, and processQueue() did not throw.
C30_IsolatedInOrder ==
  [][\A d \in Slots :
       (Returned(d) /\ listeners' = listeners)
         => /\ lastOp'.inv = listeners
            /\ ~lastOp'.threw]_vars

C30_Witness ==
  /\ lastOp.op = "processQueue"
  /\ lastOp.inv = <<2, 1>>
  /\ listeners = <<2, 1>>
  /\ 2 \in lastOp.thr
  /\ 1 \notin lastOp.thr
  /\ ~lastOp.threw

\* C31: whatever store operations are started before initialization has
\* completed, openDatabaseAsync returns one handle in all, and every
\* statement of every operation runs on that handle.
C31_OpenedOnce ==
  /\ opened <= 1
  /\ Cardinality(used) <= 1

\* C32: at most one timer is live, and it is live exactly while the trigger
\* is started; a start that finds the trigger stopped calls processQueue()
\* once and starts the timer, a start that finds it started does nothing, a
\* tick comes only while the trigger is started and calls processQueue()
\* once, and a stop leaves no timer live.
C32_PeriodicTrigger ==
  /\ [](intervals <= 1 /\ (timer <=> intervals = 1))
  /\ [][/\ (lastOp'.op = "startAutoProcessing" /\ ~timer)
             => (timer' /\ lastOp'.pq \in {"started", "skipped"})
        /\ (lastOp'.op = "startAutoProcessing" /\ timer)
             => /\ lastOp'.pq = "none"
                /\ intervals' = intervals
                /\ drain' = drain
                /\ isProcessing' = isProcessing
        /\ (lastOp'.op = "timerTick")
             => (timer /\ lastOp'.pq \in {"started", "skipped"})
        /\ (lastOp'.op = "stopAutoProcessing")
             => (~timer' /\ intervals' = 0)]_vars

C32_Witness ==
  /\ lastOp.op = "timerTick"
  /\ lastOp.pq = "started"
  /\ queue # {}
  /\ timer
  /\ intervals = 1

\* the updates of a drain whose processUpdate has been started and has not
\* settled, and those that have settled
Running(dr) == {i \in 1..Len(dr.snap) : dr.ipc[i] \in {"api", "remove", "retry", "catch"}}
Over(dr) == {i \in 1..Len(dr.snap) : dr.ipc[i] \in {"done", "rejected"}}

\* C33: the snapshot of a drain is in createdAt order; at most 5 of its
\* updates are being dispatched at once, all of the same run of 5
\* consecutive items; and while an update of a later batch has been
\* dispatched every update of the batches before it has settled.
C33_BatchesInTurn ==
  \A d \in Slots :
    LET dr == drain[d]
    IN /\ \A i, j \in 1..Len(dr.snap) : i < j => createdAt(dr.snap[i]) <= createdAt(dr.snap[j])
       /\ Cardinality(Running(dr)) <= 5
       /\ \A i, j \in Running(dr) : (i - 1) \div 5 = (j - 1) \div 5
       /\ \A i, j \in 1..Len(dr.snap) :
            ((i - 1) \div 5 < (j - 1) \div 5 /\ dr.ipc[j] # "wait") => i \in Over(dr)

C33_Witness ==
  \E d \in Slots :
    /\ Len(drain[d].snap) = 6
    /\ drain[d].ipc[6] = "remove"
    /\ drain[d].ipc[2] = "rejected"
    /\ drain[d].result.successCount = 4

\* C34: a drain that loaded a snapshot returns only when every update of
\* the snapshot has been dispatched and has settled, whatever the others
\* did, and an update that has been dispatched is not dispatched again.
C34_EachDispatchedOnce ==
  [][\A d \in Slots :
       /\ (Returned(d) /\ drain[d].pc = "batch")
            => Over(drain[d]) = 1..Len(drain[d].snap)
       /\ \A i \in 1..Len(drain[d].snap) :
            (drain[d].ipc[i] \notin {"wait", "api"} /\ drain'[d].pc # "idle")
              => drain'[d].ipc[i] \notin {"wait", "api"}]_vars

C34_Witness ==
  /\ lastOp.op = "processQueue"
  /\ lastOp.res.totalProcessed = 6
  /\ lastOp.res.successCount = 4
  /\ lastOp.res.failureCount = 2
  /\ \E k \in 1..2 : lastOp.res.errors[k].updateId = 1
  /\ \A k \in 1..2 : lastOp.res.errors[k].updateId # 6

\* the positions of the rows of ids S in the order getPendingUpdates gives
Order(q, S) == SelectSeq(getPendingUpdates(q), LAMBDA r : r.id \in S)

C36_ScopeConfined ==
  [][/\ \A f \in RefreshSlots :
          (refresh[f].pc \in {"delete", "insert"} /\ refresh[f].kind = "variables"
           /\ refresh'[f] # refresh[f])
            => /\ stakeholders' = stakeholders
               /\ \A b \in ScopeOwners \ {refresh[f].owner} :
                    scopeOf(stakeholders', stakeholder_variables', "variables", b)
                      = scopeOf(stakeholders, stakeholder_variables, "variables", b)
     /\ (\/ stakeholders' # stakeholders
         \/ stakeholder_variables' # stakeholder_variables
         \/ lastOp'.op \in {"cacheStakeholders", "cacheStakeholderVariables",
                            "clearAllCache"})
          => queue' = queue]_vars

C36_Witness ==
  /\ lastOp.op = "cacheStakeholderVariables"
  /\ lastOp.ok
  /\ lastOp.refresh.owner = 1
  /\ Len(lastOp.refresh.list) = 1
  /\ Cardinality(scopeOf(stakeholders, stakeholder_variables, "variables", 1)) = 1
  /\ Cardinality(scopeOf(stakeholders, stakeholder_variables, "variables", 2)) = MaxList
  /\ queue # {}

SnapIds(dr) == {dr.snap[i].id : i \in 1..Len(dr.snap)}

\* C37: the snapshot of a drain is the rows queued when it loads, every
\* one of them, and does not change afterwards; a row that is not in the
\* snapshot of the drain in flight is new with retry_count 0 and no step of
\* the drain changes or removes it, so it is in the snapshot of the next
\* drain that loads while it is queued.
C37_SnapshotOnly ==
  [][\A d \in Slots :
       /\ (drain[d].pc = "load" /\ drain'[d].pc = "batch")
            => /\ {drain'[d].snap[i] : i \in 1..Len(drain'[d].snap)} = queue
               /\ Len(drain'[d].snap) = Cardinality(queue)
       /\ (drain[d].pc \in {"batch", "pause"} /\ drain'[d].pc # "idle")
            => drain'[d].snap = drain[d].snap
       /\ drain[d].pc \in {"batch", "pause"}
            => /\ \A r \in queue :
                    r.id \notin SnapIds(drain[d])
                      => (r \in queue' \/ lastOp'.op = "clearAllPending")
               /\ \A q \in queue' :
                    q.id \notin Ids(queue) => (q.id \notin SnapIds(drain[d]) /\ q.retry_count = 0)]_vars

C37_Witness ==
  \E d \in Slots :
    /\ drain[d].pc = "batch"
    /\ drain[d].dirty
    /\ Len(drain[d].snap) = 1
    /\ drain[d].ipc[1] = "done"
    /\ \E r \in queue : /\ r.id \notin SnapIds(drain[d])
                        /\ r.retry_count = 0
                        /\ TextLess(drain[d].snap[1].created_at, r.created_at)

\* the updates of a drain whose dispatch or whose removal failed
FailedItems(dr) == {i \in 1..Len(dr.snap) : dr.imsg[i] # NoError}

\* C38: when a drain that loaded the queue returns, totalProcessed is the
\* number of rows it loaded, successCount + failureCount is totalProcessed,
\* and errors holds one entry for each update that failed, with its id, and
\* no other entry.
C38_ResultConsistent ==
  [][\A d \in Slots :
       (Returned(d) /\ drain[d].pc = "batch")
         => LET res == lastOp'.res
            IN /\ res.totalProcessed = Len(drain[d].snap)
               /\ res.successCount + res.failureCount = res.totalProcessed
               /\ Len(res.errors) = Cardinality(FailedItems(drain[d]))
               /\ {res.errors[k].updateId : k \in 1..Len(res.errors)}
                    = {Item(d, i).id : i \in FailedItems(drain[d])}]_vars

\* C39: when a drain returns during whose dispatches the queue was
\* cleared, and the user has submitted nothing since, the queue is empty.
C39_ClearedStaysEmpty ==
  [][\A d \in Slots :
       (Returned(d) /\ drain[d].cleared /\ ~drain[d].submitted) => queue' = {}]_vars

====
